---- MODULE Spec2Model ----
(***************************************************************************)
(* Model of the post-processing scripts of the repository:                 *)
(*   - the label/coordinate extraction from the KLABELS file, as written   *)
(*     in BAND/BAND.py (top-level loop), BAND/BAND_Orbits.py               *)
(*     (read_klabels) and BAND/Dirac.py (read_klabels; BAND/Function.py    *)
(*     holds a line-for-line copy of it);                                  *)
(*   - analyze_dirac_cone of BAND/Dirac.py (copied in BAND/Function.py);   *)
(*   - the projected-DOS column selection and extract_fermi_energy of      *)
(*     DOS/DOS.py;                                                         *)
(*   - the main block and analyze_orbital_contribution of BAND/Dirac.py;   *)
(*   - the convergence sweeps of Optimization_ENCUT/ENCUT_TEST.py and      *)
(*     Optimization_KPOINTS/KPOINTS_TEST.py;                               *)
(*   - parse_band_data of BAND/Orbit_Band.py.                              *)
(*                                                                         *)
(* Text is modelled down to characters: a token is a sequence of           *)
(* one-character strings, a line is the sequence of its whitespace-        *)
(* separated tokens (what str.split() returns; the blank line is << >>),   *)
(* and a file is a sequence of lines.  Lines carry no leading whitespace.  *)
(* Numbers are fixed point: a value v stands for v / Unit.                 *)
(***************************************************************************)
EXTENDS Integers, Sequences, FiniteSets, TLC

\* ------------------------------------------------------------------ bounds

\* Longest KLABELS file, in lines, of the label-extraction specification.
MaxLines == 4
\* Longest KLABELS file read by analyze_dirac_cone.
MaxKLines == 2
\* Band tables have 1..MaxRows rows, or 2*window+1 .. 2*window+MaxRows rows.
MaxRows == 3
\* Most energy columns (bands) of a band table.
MaxBands == 3
\* Projected-DOS tables have 1..MaxPRows rows and 1..MaxCols columns, and
\* their cell values are shifted by 0..MaxSeed.
MaxPRows == 3
MaxCols == 10
MaxSeed == 2
\* Longest FERMI_ENERGY file, in lines.
MaxFLines == 2
\* Most parameter values of a convergence sweep.
MaxSweep == 3
\* Most folders of the k-point sweep.
MaxDirs == 3
\* Longest PBAND_C.dat file, in lines.
MaxBLines == 4

\* Fixed point: twentieths, so that a token with one fractional digit and the
\* midpoint of two such values are both exact.
Unit == 2 * 10

\* ------------------------------------------------------------- characters

Digits == <<"0", "1", "2", "3", "4", "5", "6", "7", "8", "9">>
UpperAZ == <<"A", "B", "C", "D", "E", "F", "G", "H", "I", "J", "K", "L", "M",
             "N", "O", "P", "Q", "R", "S", "T", "U", "V", "W", "X", "Y", "Z">>
LowerAZ == <<"a", "b", "c", "d", "e", "f", "g", "h", "i", "j", "k", "l", "m",
             "n", "o", "p", "q", "r", "s", "t", "u", "v", "w", "x", "y", "z">>

IsDigit(c) == \E i \in 1..Len(Digits) : Digits[i] = c
DigitVal(c) == (CHOOSE i \in 1..Len(Digits) : Digits[i] = c) - 1

\* str.lower() on one character and on a token.
LowerChar(c) ==
    IF \E i \in 1..Len(UpperAZ) : UpperAZ[i] = c
    THEN LowerAZ[CHOOSE i \in 1..Len(UpperAZ) : UpperAZ[i] = c]
    ELSE c
Lower(tok) == [i \in 1..Len(tok) |-> LowerChar(tok[i])]
UpperChar(c) ==
    IF \E i \in 1..Len(LowerAZ) : LowerAZ[i] = c
    THEN UpperAZ[CHOOSE i \in 1..Len(LowerAZ) : LowerAZ[i] = c]
    ELSE c
Upper(tok) == [i \in 1..Len(tok) |-> UpperChar(tok[i])]

\* tok.replace('\\', ''): every backslash removed.
RECURSIVE RemoveBackslash(_)
RemoveBackslash(tok) ==
    IF tok = << >> THEN << >>
    ELSE IF Head(tok) = "\\" THEN RemoveBackslash(Tail(tok))
    ELSE <<Head(tok)>> \o RemoveBackslash(Tail(tok))

\* marker in line: the marker holds no whitespace, so it occurs in the raw
\* line iff it occurs inside one of its tokens.
InToken(marker, tok) ==
    \E o \in 1..Len(tok) :
        /\ o + Len(marker) - 1 <= Len(tok)
        /\ SubSeq(tok, o, o + Len(marker) - 1) = marker
InLine(marker, line) == \E t \in 1..Len(line) : InToken(marker, line[t])

\* ---------------------------------------------------------------- float()

Pow10(n) == IF n = 0 THEN 1 ELSE IF n = 1 THEN 10 ELSE IF n = 2 THEN 100 ELSE 1000

RECURSIVE IntOf(_)
IntOf(ds) == IF ds = << >> THEN 0
             ELSE IntOf(SubSeq(ds, 1, Len(ds) - 1)) * 10 + DigitVal(ds[Len(ds)])

AllDigits(ds) == \A i \in 1..Len(ds) : IsDigit(ds[i])

\* float(tok) for the decimal notation [sign] digits [. digits]  (at least
\* one digit): ok is FALSE where Python raises ValueError.  Exponents, inf,
\* nan and digit-group underscores do not occur in the tokens of this model.
float(tok) ==
    LET signed == tok /= << >> /\ tok[1] \in {"+", "-"}
        body == IF signed THEN Tail(tok) ELSE tok
        dots == {i \in 1..Len(body) : body[i] = "."}
        dot == IF dots = {} THEN Len(body) + 1 ELSE CHOOSE i \in dots : TRUE
        ip == SubSeq(body, 1, dot - 1)
        fp == SubSeq(body, dot + 1, Len(body))
        wellFormed == /\ Cardinality(dots) <= 1
                      /\ AllDigits(ip) /\ AllDigits(fp)
                      /\ Len(ip) + Len(fp) >= 1
                      /\ Len(fp) <= 3
        mag == IntOf(ip) * Unit + (IntOf(fp) * Unit) \div Pow10(Len(fp))
    IN IF wellFormed
       THEN [ok |-> TRUE, val |-> IF signed /\ tok[1] = "-" THEN 0 - mag ELSE mag]
       ELSE [ok |-> FALSE, val |-> 0]

\* ------------------------------------------------------------ vocabulary

tKLabel == <<"K", "-", "L", "a", "b", "e", "l">>
tCoordinate == <<"C", "o", "o", "r", "d", "i", "n", "a", "t", "e">>
tGamma == <<"G", "a", "m", "m", "a">>
tBsGamma == <<"\\", "G", "a", "m", "m", "a">>
tK == <<"K">>
tM == <<"M">>
tStarK == <<"*", "K">>
t00 == <<"0", ".", "0">>
t15 == <<"1", ".", "5">>
t20 == <<"2", ".", "0">>
t120 == <<"1", "2", ".", "0">>
tabc == <<"a", "b", "c">>

lHeader == <<tKLabel, tCoordinate>>
lBlank == << >>
lGamma == <<tGamma, t00>>
lK == <<tK, t15>>
lM == <<tM, t20>>
\* three tokens: the second and the last token are different numbers
lBsGamma3 == <<tBsGamma, t15, t00>>
\* two tokens, the label written with a backslash
lBsGamma == <<tBsGamma, t00>>
lBad == <<tM, tabc>>
\* a position beyond the end of every path of the model
lMFar == <<tM, t120>>
\* a line that starts with an asterisk
lStar == <<tStarK, t15>>

\* The lines a KLABELS file of the model is made of.
LineVocab == {lHeader, lBlank, lGamma, lK, lM, lBsGamma, lBsGamma3, lBad, lStar}

RECURSIVE SeqsUpTo(_, _)
SeqsUpTo(S, n) ==
    IF n = 0 THEN {<< >>}
    ELSE LET shorter == SeqsUpTo(S, n - 1)
         IN shorter \cup {Append(s, x) : s \in {t \in shorter : Len(t) = n - 1}, x \in S}

Files(n) == SeqsUpTo(LineVocab, n)

\* ------------------------------------------------------------------ state

VARIABLES
    pc,            \* position of the running script
    out,           \* the diagnostics printed so far
    variant,       \* which label extractor runs: "Dirac", "BAND", "BAND_Orbits"
    kl_exists,     \* whether the KLABELS file exists
    kl_file,       \* the lines of the KLABELS file on disk
    lines,         \* f.readlines()
    idx,           \* 0-based index of the next line the loop takes
    sym_points,    \* coordinates extracted so far (kpoints in BAND_Orbits.py)
    labels,        \* labels extracted so far
    k_points,      \* band_data[:, 0]
    energies,      \* band_data[:, 1:], one row per path position
    k_position,    \* target path position
    k_index_band,  \* 0-based row nearest to k_position
    start_idx,     \* window bounds, 0-based, end exclusive
    end_idx,
    k_window,      \* k_points[start_idx:end_idx]
    e_window,      \* energies[start_idx:end_idx, :]
    dirac_bands,   \* the selected band indices, 0-based
    pdos_data,     \* the projected-DOS table, as np.loadtxt returns it
    pdos_energy,   \* pdos_data[:, 0]
    s_dos, px_dos, py_dos, pz_dos,  \* the four channels
    raised,        \* Dirac.py: the exceptions raised so far in the run, by origin
    fermi_exists,  \* DOS.py: whether FERMI_ENERGY exists
    fermi_file,    \* the file FERMI_ENERGY, a sequence of lines of tokens
    content,       \* f.read().strip(), a sequence of characters
    fermi_energy,  \* the value extract_fermi_energy returns
    outcars,       \* ENCUT_TEST.py: the state of Encut_<v>/OUTCAR, per list position
    encut_values,  \* the list of parameter values
    encut_energies,    \* the list energies, one entry per value read so far
    energy_diffs,      \* np.abs(np.diff(energies))
    convergence_index, \* 0-based index of the converged value, NoIndex for None
    base_dirs,     \* KPOINTS_TEST.py: the list of folder names
    kfolders,      \* the state of each folder and of its OUTCAR, per list position
    kp_i,          \* folders of base_dirs handled so far
    results,       \* the dictionary kpoints -> energy
    sorted_kpoints,      \* sorted(results.keys())
    energy_differences,  \* |E - E_ref| per sorted key
    converged_kpoints,   \* the converged key, NoIndex for None
    pband_file,    \* Orbit_Band.py: the lines of PBAND_C.dat
    pband_i,       \* lines of the file read so far
    bands,         \* the dictionary band index -> array of rows
    current_band,  \* the band index of the open section, NoIndex for None
    data_lines,    \* the data lines gathered for the open section
    pband_present,     \* BAND_Orbits.py: os.path.exists(pband_file)
    klabels_present,   \* os.path.exists(klabels_file)
    klabels_lines,     \* the lines of the label file on disk
    k_path,            \* data[:, 0]
    energy_all,        \* data[:, 1], the array energy
    high_sym_k,        \* the coordinates read_klabels returns
    high_sym_labels,   \* the labels read_klabels returns
    k_point_idx,       \* row nearest to the K point, NoIndex for None
    k_point,           \* the coordinate of the first label K
    energy_near,       \* energy[k_mask]
    e_range,           \* half-width of the energy window in use
    e_mask,            \* one truth value per entry of energy_near
    scale_dirs,        \* LATTICE.py: the state of OUTCAR and CONTCAR per scale factor
    sc_i,              \* scale factors handled so far
    scale_factors,     \* the list, then the filtered array
    lattice_energies,  \* the list energies, then the filtered array
    lattice_constants, \* the list, then the filtered array
    valid_indices      \* ~np.isnan(energies), << >> before the filter

klVars == <<variant, kl_exists, kl_file, lines, idx>>
resultVars == <<sym_points, labels>>
diracVars == <<k_points, energies, k_position, k_index_band, start_idx, end_idx,
               k_window, e_window, dirac_bands>>
dosVars == <<pdos_data, pdos_energy, s_dos, px_dos, py_dos, pz_dos>>
fermiVars == <<fermi_exists, fermi_file, content, fermi_energy>>
\* the variables of the scripts other than the label, Dirac-cone and PDOS ones
encutVars == <<outcars, encut_values, encut_energies, energy_diffs, convergence_index>>
kpVars == <<base_dirs, kfolders, kp_i, results, sorted_kpoints, energy_differences,
            converged_kpoints>>
pbandVars == <<pband_file, pband_i, bands, current_band, data_lines>>
orbitsVars == <<pband_present, klabels_present, klabels_lines, k_path, energy_all,
                high_sym_k, high_sym_labels, k_point_idx, k_point, energy_near,
                e_range, e_mask>>
latticeVars == <<scale_dirs, sc_i, scale_factors, lattice_energies,
                 lattice_constants, valid_indices>>
laterVars == <<fermiVars, encutVars, kpVars, pbandVars, orbitsVars, latticeVars>>
firstVars == <<klVars, resultVars, diracVars, dosVars, raised>>
vars == <<pc, out, klVars, resultVars, diracVars, dosVars, raised, laterVars>>

\* The value of a name that is not bound yet.
None == "None"

KlIdle ==
    /\ variant = None /\ kl_exists = FALSE /\ kl_file = << >>
    /\ lines = << >> /\ idx = 0
ResultIdle == sym_points = << >> /\ labels = << >>
DiracIdle ==
    /\ k_points = << >> /\ energies = << >> /\ k_position = None
    /\ k_index_band = None /\ start_idx = None /\ end_idx = None
    /\ k_window = << >> /\ e_window = << >> /\ dirac_bands = None
\* pdos_data before the table is read.
NoArray == [shape |-> << >>, cells |-> << >>]

DosIdle ==
    /\ pdos_data = NoArray /\ pdos_energy = None
    /\ s_dos = None /\ px_dos = None /\ py_dos = None /\ pz_dos = None

FermiIdle ==
    /\ fermi_exists = FALSE /\ fermi_file = << >>
    /\ content = << >> /\ fermi_energy = None

\* None, for a name that holds an integer once it is bound.
NoIndex == 0 - 1

EncutIdle ==
    /\ outcars = << >> /\ encut_values = << >> /\ encut_energies = << >>
    /\ energy_diffs = << >> /\ convergence_index = NoIndex

KpIdle ==
    /\ base_dirs = << >> /\ kfolders = << >> /\ kp_i = 0 /\ results = << >>
    /\ sorted_kpoints = << >> /\ energy_differences = << >>
    /\ converged_kpoints = NoIndex

PbandIdle ==
    /\ pband_file = << >> /\ pband_i = 0 /\ bands = << >>
    /\ current_band = NoIndex /\ data_lines = << >>

OrbitsIdle ==
    /\ pband_present = FALSE /\ klabels_present = FALSE /\ klabels_lines = << >>
    /\ k_path = << >> /\ energy_all = << >>
    /\ high_sym_k = << >> /\ high_sym_labels = << >>
    /\ k_point_idx = NoIndex /\ k_point = 0
    /\ energy_near = << >> /\ e_range = 0 /\ e_mask = << >>

LatticeIdle ==
    /\ scale_dirs = << >> /\ sc_i = 0 /\ scale_factors = << >>
    /\ lattice_energies = << >> /\ lattice_constants = << >>
    /\ valid_indices = << >>

LaterIdle ==
    FermiIdle /\ EncutIdle /\ KpIdle /\ PbandIdle /\ OrbitsIdle /\ LatticeIdle

FirstIdle == KlIdle /\ ResultIdle /\ DiracIdle /\ DosIdle /\ raised = {}

\* ------------------------------------------------- label extraction: lines

\* The pair of lists a label extractor builds.
NoLabels == [sym_points |-> << >>, labels |-> << >>]

\* Dirac.py read_klabels: the index of the first line the loop takes.
Dirac_start_index(ls) ==
    LET afterHeader ==
            IF ls /= << >> /\ (InLine(tKLabel, ls[1]) \/ InLine(tCoordinate, ls[1]))
            THEN 1 ELSE 0
    IN IF afterHeader < Len(ls) /\ ls[afterHeader + 1] = << >>
       THEN afterHeader + 1
       ELSE afterHeader

\* Dirac_line reading the coordinate from the second token, as BAND.py does.
Dirac_line_second_token(line, acc) ==
    IF line = << >> THEN acc
    ELSE IF Len(line) >= 2
    THEN LET label == RemoveBackslash(line[1])
             coord == float(line[2])
         IN IF coord.ok
            THEN [labels |-> Append(acc.labels, label),
                  sym_points |-> Append(acc.sym_points, coord.val)]
            ELSE acc
    ELSE acc

\* Dirac_line with the label appended before the coordinate is converted.
Dirac_line_label_first(line, acc) ==
    IF line = << >> THEN acc
    ELSE IF Len(line) >= 2
    THEN LET label == RemoveBackslash(line[1])
             coord == float(line[Len(line)])
         IN IF coord.ok
            THEN [labels |-> Append(acc.labels, label),
                  sym_points |-> Append(acc.sym_points, coord.val)]
            ELSE [labels |-> Append(acc.labels, label),
                  sym_points |-> acc.sym_points]
    ELSE acc

\* Dirac.py read_klabels: one pass of the loop body over `line`.
Dirac_line(line, acc) ==
    IF line = << >> THEN acc
    ELSE IF Len(line) >= 2
    THEN LET label == RemoveBackslash(line[1])
             coord == float(line[Len(line)])
         IN IF coord.ok
            THEN [labels |-> Append(acc.labels, label),
                  sym_points |-> Append(acc.sym_points, coord.val)]
            ELSE acc
    ELSE acc

\* BAND.py: the loop starts at lines[1:] whatever the first line holds.
BAND_start_index(ls) == 1

\* BAND_line without the renaming of Gamma.
BAND_line_no_rename(line, acc) ==
    IF line = << >> THEN acc
    ELSE IF Len(line) >= 2
    THEN LET coord == float(line[2])
         IN IF coord.ok
            THEN [sym_points |-> Append(acc.sym_points, coord.val),
                  labels |-> Append(acc.labels, line[1])]
            ELSE acc
    ELSE acc

\* BAND.py: one pass of the loop body over `line`.
BAND_line(line, acc) ==
    IF line = << >> THEN acc
    ELSE IF Len(line) >= 2
    THEN LET coord == float(line[2])
             label == IF line[1] = tGamma THEN tBsGamma ELSE line[1]
         IN IF coord.ok
            THEN [sym_points |-> Append(acc.sym_points, coord.val),
                  labels |-> Append(acc.labels, label)]
            ELSE acc
    ELSE acc

\* BAND_Orbits.py read_klabels: the loop starts at lines[1:].
Orbits_start_index(ls) == 1

\* BAND_Orbits.py read_klabels: one pass of the loop body over `line`.
Orbits_line(line, acc) ==
    IF line /= << >> /\ line[1][1] /= "*"
    THEN IF Len(line) >= 2
         THEN LET kpoint == float(line[2])
              IN IF kpoint.ok
                 THEN [sym_points |-> Append(acc.sym_points, kpoint.val),
                       labels |-> Append(acc.labels, line[1])]
                 ELSE acc
         ELSE acc
    ELSE acc

\* ----------------------------------------- label extraction: step by step

Acc == [sym_points |-> sym_points, labels |-> labels]

SetAcc(acc) ==
    /\ sym_points' = acc.sym_points
    /\ labels' = acc.labels

\* Dirac.py read_klabels up to the loop: the existence check, readlines and
\* the header / blank-line skip.
KL_Dirac_Open ==
    /\ pc = "kl_open" /\ variant = "Dirac"
    /\ UNCHANGED <<raised, laterVars>>
    /\ IF ~kl_exists
       THEN /\ pc' = "kl_done"
            /\ out' = out \cup {"KLABELS file not found"}
            /\ UNCHANGED <<lines, idx>>
       ELSE /\ lines' = kl_file
            /\ idx' = Dirac_start_index(kl_file)
            /\ pc' = "kl_loop"
            /\ out' = out
    /\ UNCHANGED <<variant, kl_exists, kl_file, resultVars, diracVars, dosVars>>

KL_Dirac_Line ==
    /\ pc = "kl_loop" /\ variant = "Dirac"
    /\ UNCHANGED <<raised, laterVars>>
    /\ idx < Len(lines)
    /\ SetAcc(Dirac_line(lines[idx + 1], Acc))
    /\ idx' = idx + 1
    /\ UNCHANGED <<pc, out, variant, kl_exists, kl_file, lines, diracVars, dosVars>>

KL_Dirac_Return ==
    /\ pc = "kl_loop" /\ variant = "Dirac"
    /\ UNCHANGED <<raised, laterVars>>
    /\ idx >= Len(lines)
    /\ pc' = "kl_done"
    /\ UNCHANGED <<out, klVars, resultVars, diracVars, dosVars>>

\* BAND.py: open() raises FileNotFoundError on a missing file, and nothing
\* catches it.
KL_BAND_Open ==
    /\ pc = "kl_open" /\ variant = "BAND"
    /\ UNCHANGED <<raised, laterVars>>
    /\ IF ~kl_exists
       THEN /\ pc' = "kl_raised"
            /\ UNCHANGED <<lines, idx>>
       ELSE /\ lines' = kl_file
            /\ idx' = BAND_start_index(kl_file)
            /\ pc' = "kl_loop"
    /\ UNCHANGED <<out, variant, kl_exists, kl_file, resultVars, diracVars, dosVars>>

KL_BAND_Line ==
    /\ pc = "kl_loop" /\ variant = "BAND"
    /\ UNCHANGED <<raised, laterVars>>
    /\ idx < Len(lines)
    /\ SetAcc(BAND_line(lines[idx + 1], Acc))
    /\ idx' = idx + 1
    /\ UNCHANGED <<pc, out, variant, kl_exists, kl_file, lines, diracVars, dosVars>>

KL_BAND_End ==
    /\ pc = "kl_loop" /\ variant = "BAND"
    /\ UNCHANGED <<raised, laterVars>>
    /\ idx >= Len(lines)
    /\ pc' = "kl_done"
    /\ UNCHANGED <<out, klVars, resultVars, diracVars, dosVars>>

\* BAND_Orbits.py read_klabels: open() raises on a missing file.
KL_Orbits_Open ==
    /\ pc = "kl_open" /\ variant = "BAND_Orbits"
    /\ UNCHANGED <<raised, laterVars>>
    /\ IF ~kl_exists
       THEN /\ pc' = "kl_raised"
            /\ UNCHANGED <<lines, idx>>
       ELSE /\ lines' = kl_file
            /\ idx' = Orbits_start_index(kl_file)
            /\ pc' = "kl_loop"
    /\ UNCHANGED <<out, variant, kl_exists, kl_file, resultVars, diracVars, dosVars>>

KL_Orbits_Line ==
    /\ pc = "kl_loop" /\ variant = "BAND_Orbits"
    /\ UNCHANGED <<raised, laterVars>>
    /\ idx < Len(lines)
    /\ SetAcc(Orbits_line(lines[idx + 1], Acc))
    /\ idx' = idx + 1
    /\ UNCHANGED <<pc, out, variant, kl_exists, kl_file, lines, diracVars, dosVars>>

KL_Orbits_Return ==
    /\ pc = "kl_loop" /\ variant = "BAND_Orbits"
    /\ UNCHANGED <<raised, laterVars>>
    /\ idx >= Len(lines)
    /\ pc' = "kl_done"
    /\ UNCHANGED <<out, klVars, resultVars, diracVars, dosVars>>

Variants == {"Dirac", "BAND", "BAND_Orbits"}

InitKL ==
    /\ pc = "kl_open" /\ out = {}
    /\ raised = {} /\ LaterIdle
    /\ variant \in Variants
    /\ kl_exists \in BOOLEAN
    /\ kl_file \in (IF kl_exists THEN Files(MaxLines) ELSE {<< >>})
    /\ lines = << >> /\ idx = 0
    /\ ResultIdle /\ DiracIdle /\ DosIdle

NextKL ==
    \/ KL_Dirac_Open \/ KL_Dirac_Line \/ KL_Dirac_Return
    \/ KL_BAND_Open \/ KL_BAND_Line \/ KL_BAND_End
    \/ KL_Orbits_Open \/ KL_Orbits_Line \/ KL_Orbits_Return

SpecKL == InitKL /\ [][NextKL]_vars

\* ------------------------------------------------------ analyze_dirac_cone

\* Rows taken before and after the row nearest to the target (Dirac.py l.39).
window == 50

AbsV(x) == IF x < 0 THEN 0 - x ELSE x
Max2(a, b) == IF a >= b THEN a ELSE b
Min2(a, b) == IF a <= b THEN a ELSE b

\* read_klabels of Dirac.py as one call: the loop over lines[start_index:].
RECURSIVE Dirac_loop(_, _)
Dirac_loop(ls, acc) ==
    IF ls = << >> THEN acc
    ELSE Dirac_loop(Tail(ls), Dirac_line(Head(ls), acc))

read_klabels(exists, ls) ==
    IF ~exists THEN NoLabels
    ELSE Dirac_loop(SubSeq(ls, Dirac_start_index(ls) + 1, Len(ls)), NoLabels)

\* The lines of the KLABELS files analyze_dirac_cone reads in this model.
DiracLineVocab == {lHeader, lBlank, lGamma, lK, lMFar}
DiracFiles == SeqsUpTo(DiracLineVocab, MaxKLines)

\* Row counts of REFORMATTED_BAND.dat: short tables, and tables long enough
\* to hold a whole window on both sides of a row.
RowCounts == (1..MaxRows) \cup ((2 * window + 1)..(2 * window + MaxRows))

\* The energies of the first row, in eV: consecutive levels one apart, band
\* number `shift` at the Fermi level (none if shift = 0).
BaseEnergies(nb, shift) == [b \in 1..nb |-> b - shift]

\* The path positions are strictly increasing, 0.1 apart.
KPath(n) == [j \in 1..n |-> (j - 1) * (Unit \div 10)]

\* The energies of row j are the base energies moved on by j - 1 bands, so
\* that the order of the bands differs from row to row.
EnergyTable(n, base) ==
    [j \in 1..n |-> [b \in 1..Len(base) |-> base[((b + j - 2) % Len(base)) + 1]]]

\* The labels taken for the K point (Dirac.py l.25).
KNames == {<<"k">>, <<"k", "$">>, <<"k", "\\">>, <<"k", "1">>, <<"k", "2">>}

\* Dirac.py l.22-31: the 0-based index into sym_points of the target.
k_index_of(sp, lb) ==
    LET hits == {i \in 1..Len(lb) : Lower(lb[i]) \in KNames}
    IN IF hits /= {}
       THEN (CHOOSE i \in hits : \A j \in hits : i <= j) - 1
       ELSE Len(sp) \div 2

\* The target position falling back to the start of the path.
k_position_path_start(kp, sp, lb) ==
    IF sp = << >>
    THEN kp[1]
    ELSE sp[k_index_of(sp, lb) + 1]

\* Dirac.py l.16-33: the target path position.
k_position_of(kp, sp, lb) ==
    IF sp = << >>
    THEN (kp[1] + kp[Len(kp)]) \div 2
    ELSE sp[k_index_of(sp, lb) + 1]

\* np.argmin(np.abs(k_points - k_position)): the first of the nearest rows,
\* 0-based.
RECURSIVE argmin_in(_, _, _, _)
argmin_in(kp, target, lo, hi) ==
    IF lo = hi THEN lo
    ELSE LET mid == (lo + hi) \div 2
             l == argmin_in(kp, target, lo, mid)
             r == argmin_in(kp, target, mid + 1, hi)
         IN IF AbsV(kp[r] - target) < AbsV(kp[l] - target) THEN r ELSE l

argmin_abs(kp, target) == argmin_in(kp, target, 1, Len(kp)) - 1

\* window bounds without the clipping at the ends of the table.
window_bounds_unclipped(i, n) ==
    [start_idx |-> i - window, end_idx |-> i + window]

\* Dirac.py l.40-41.
window_bounds(i, n) ==
    [start_idx |-> Max2(0, i - window), end_idx |-> Min2(n, i + window)]

\* a[start:end] of a Python sequence: a negative index counts from the end,
\* and both indices are clipped to 0..len(a).
SliceIndex(a, i) == Max2(0, Min2(Len(a), IF i < 0 THEN i + Len(a) ELSE i))
Slice(a, start, end) == SubSeq(a, SliceIndex(a, start) + 1, SliceIndex(a, end))

\* The energies band selection reads, taken at the first row of the table.
band_energies_at_first_row(en, i) == en[1]

\* Dirac.py l.48: energies[k_index_band, :].
band_energies_at(en, i) == en[i + 1]

\* np.argsort(np.abs(row - 0)): the 0-based band indices by ascending
\* distance from the Fermi level.  The default sort is not stable, so bands
\* at the same distance come in any order.
argsorts_abs(row) ==
    {p \in [1..Len(row) -> 0..(Len(row) - 1)] :
        /\ \A a, b \in 1..Len(row) : a /= b => p[a] /= p[b]
        /\ \A a \in 1..(Len(row) - 1) :
               AbsV(row[p[a] + 1]) <= AbsV(row[p[a + 1] + 1])}

\* Dirac.py l.9-11: np.loadtxt raises on a missing file, and gives a
\* one-dimensional array for a single row or a single column, on which
\* band_data[:, 0] raises IndexError.
D_LoadBand ==
    /\ pc = "d_load"
    /\ UNCHANGED laterVars
    /\ \E found \in BOOLEAN, n \in RowCounts, nb \in 0..MaxBands, shift \in 0..MaxBands :
            IF found /\ n >= 2 /\ nb >= 1
            THEN /\ k_points' = KPath(n)
                 /\ energies' = EnergyTable(n, BaseEnergies(nb, shift))
                 /\ pc' = "d_labels"
                 /\ UNCHANGED raised
            ELSE /\ pc' = "d_raised"
                 /\ raised' = raised \cup {"REFORMATTED_BAND.dat"}
                 /\ UNCHANGED <<k_points, energies>>
    /\ UNCHANGED <<out, variant, lines, idx, kl_exists, kl_file, resultVars,
                   k_position, k_index_band, start_idx, end_idx, k_window,
                   e_window, dirac_bands, dosVars>>

\* Dirac.py l.14-33: the labels of the KLABELS file, and the target position.
D_Labels ==
    /\ pc = "d_labels"
    /\ UNCHANGED laterVars
    /\ \E exists \in BOOLEAN :
        \E file \in (IF exists THEN DiracFiles ELSE {<< >>}) :
            LET got == read_klabels(exists, file)
            IN /\ kl_exists' = exists
               /\ kl_file' = file
               /\ sym_points' = got.sym_points
               /\ labels' = got.labels
               /\ k_position' = k_position_of(k_points, got.sym_points, got.labels)
               /\ raised' = raised \cup
                    (IF \E i \in (Dirac_start_index(file) + 1)..Len(file) :
                           Len(file[i]) >= 2 /\ ~float(file[i][Len(file[i])]).ok
                     THEN {"KLABELS coordinate"} ELSE {})
               /\ out' = out
                    \cup (IF exists THEN {} ELSE {"KLABELS file not found"})
                    \cup (IF got.sym_points = << >>
                          THEN {"no valid high-symmetry points, using path midpoint"}
                          ELSE IF \E i \in 1..Len(got.labels) : Lower(got.labels[i]) \in KNames
                          THEN {}
                          ELSE {"K-point label not found, using path midpoint"})
    /\ pc' = "d_window"
    /\ UNCHANGED <<variant, lines, idx, k_points, energies, k_index_band,
                   start_idx, end_idx, k_window, e_window, dirac_bands, dosVars>>

\* Dirac.py l.35-44: the nearest row and the window around it.
D_Window ==
    /\ pc = "d_window"
    /\ UNCHANGED <<raised, laterVars>>
    /\ k_index_band' = argmin_abs(k_points, k_position)
    /\ start_idx' = window_bounds(k_index_band', Len(k_points)).start_idx
    /\ end_idx' = window_bounds(k_index_band', Len(k_points)).end_idx
    /\ k_window' = Slice(k_points, start_idx', end_idx')
    /\ e_window' = Slice(energies, start_idx', end_idx')
    /\ pc' = "d_select"
    /\ UNCHANGED <<out, klVars, resultVars, k_points, energies, k_position,
                   dirac_bands, dosVars>>

\* Dirac.py l.46-52: the two bands nearest to the Fermi level.
D_Select ==
    /\ pc = "d_select"
    /\ UNCHANGED <<raised, laterVars>>
    /\ \E sorted_bands \in argsorts_abs(band_energies_at(energies, k_index_band)) :
           dirac_bands' = Slice(sorted_bands, 0, Min2(2, Len(sorted_bands)))
    /\ pc' = "d_selected"
    /\ out' = out \cup {"Dirac cone band indices"}
    /\ UNCHANGED <<klVars, resultVars, k_points, energies, k_position,
                   k_index_band, start_idx, end_idx, k_window, e_window, dosVars>>

\* np.loadtxt on the data lines of a table file: an array with its shape.
\* Cell (r, c), both 0-based, holds seed + 10 * c + r, so that no two columns
\* are alike; column 0 is the energy.  A single row or a single column
\* comes back one-dimensional.
Cell(seed, r, c) == seed + 10 * c + r

loadtxt(nrows, ncols, seed) ==
    IF nrows = 1
    THEN [shape |-> <<ncols>>, cells |-> [c \in 1..ncols |-> Cell(seed, 0, c - 1)]]
    ELSE IF ncols = 1
    THEN [shape |-> <<nrows>>, cells |-> [r \in 1..nrows |-> Cell(seed, r - 1, 0)]]
    ELSE [shape |-> <<nrows, ncols>>,
          cells |-> [r \in 1..nrows |-> [c \in 1..ncols |-> Cell(seed, r - 1, c - 1)]]]

\* Dirac.py l.72-146, analyze_orbital_contribution, on the shapes np.loadtxt
\* gives for TDOS.dat and PDOS_USER.dat, with the try block of l.88-109 left
\* out: an error of the PDOS read leaves the function.
analyze_orbital_contribution_no_try(tdos, pdos) ==
    IF ~tdos.found
    THEN [printed |-> {"TDOS.dat file not found"}, raised |-> {}, escapes |-> FALSE]
    ELSE IF Len(tdos.shape) /= 2
    THEN [printed |-> {}, raised |-> {"TDOS.dat"}, escapes |-> TRUE]
    ELSE IF ~pdos.found
    THEN [printed |-> {"PDOS_USER file not found"}, raised |-> {}, escapes |-> FALSE]
    ELSE IF Len(pdos.shape) /= 2 \/ pdos.shape[2] < 5
    THEN [printed |-> {}, raised |-> {"PDOS_USER.dat"}, escapes |-> TRUE]
    ELSE IF pdos.shape[1] /= tdos.shape[1]
    THEN [printed |-> {"read orbital data from PDOS_USER"},
          raised |-> {"PDOS mask"}, escapes |-> TRUE]
    ELSE [printed |-> {"read orbital data from PDOS_USER", "dos_contributions.png"},
          raised |-> {}, escapes |-> FALSE]

\* Dirac.py l.72-146, analyze_orbital_contribution: what it prints, the
\* exceptions raised in it, and whether one leaves the function.  A missing
\* file returns early (l.79-81, l.110-112); a one-dimensional TDOS table
\* raises IndexError at l.77; an error of the PDOS read (one-dimensional
\* table, fewer than 5 columns) is caught at l.107 and returns; a PDOS table
\* of another length than the TDOS table raises IndexError at pdos[mask],
\* l.126.
analyze_orbital_contribution(tdos, pdos) ==
    IF ~tdos.found
    THEN [printed |-> {"TDOS.dat file not found"}, raised |-> {}, escapes |-> FALSE]
    ELSE IF Len(tdos.shape) /= 2
    THEN [printed |-> {}, raised |-> {"TDOS.dat"}, escapes |-> TRUE]
    ELSE IF ~pdos.found
    THEN [printed |-> {"PDOS_USER file not found"}, raised |-> {}, escapes |-> FALSE]
    ELSE IF Len(pdos.shape) /= 2 \/ pdos.shape[2] < 5
    THEN [printed |-> {"Error reading PDOS_USER file"},
          raised |-> {"PDOS_USER.dat"}, escapes |-> FALSE]
    ELSE IF pdos.shape[1] /= tdos.shape[1]
    THEN [printed |-> {"read orbital data from PDOS_USER"},
          raised |-> {"PDOS mask"}, escapes |-> TRUE]
    ELSE [printed |-> {"read orbital data from PDOS_USER", "dos_contributions.png"},
          raised |-> {}, escapes |-> FALSE]

\* The TDOS.dat and PDOS_USER.dat files: missing, or a table as np.loadtxt
\* returns it; TDOS.dat has two columns.
DosFiles(cols) ==
    {[found |-> FALSE, shape |-> << >>]}
        \cup {[found |-> TRUE, shape |-> loadtxt(r, c, 0).shape] :
                 r \in 1..MaxPRows, c \in cols}

\* Dirac.py l.54-69: the figure, and the call of analyze_orbital_contribution;
\* with its return, or with the exception that leaves it, the locals of
\* analyze_dirac_cone are gone.
D_Orbital ==
    /\ pc = "d_selected"
    /\ \E tdos \in DosFiles({2}), pdos \in DosFiles(1..MaxCols) :
          LET got == analyze_orbital_contribution(tdos, pdos)
          IN /\ out' = out \cup {"dirac_cone.png"} \cup got.printed
             /\ raised' = raised \cup got.raised
             /\ pc' = IF got.escapes THEN "d_orbital_raised" ELSE "d_returned"
    /\ sym_points' = << >> /\ labels' = << >>
    /\ k_points' = << >> /\ energies' = << >> /\ k_position' = None
    /\ k_index_band' = None /\ start_idx' = None /\ end_idx' = None
    /\ k_window' = << >> /\ e_window' = << >> /\ dirac_bands' = None
    /\ UNCHANGED <<klVars, dosVars, laterVars>>

\* Dirac.py l.203: analyze_dirac_cone has returned.
D_MainCompleted ==
    /\ pc = "d_returned"
    /\ out' = out \cup {"Analysis completed!"}
    /\ pc' = "d_exit"
    /\ UNCHANGED <<klVars, resultVars, diracVars, dosVars, raised, laterVars>>

\* Dirac.py l.204-206: the handler of the main block.
D_MainExcept ==
    /\ pc \in {"d_raised", "d_orbital_raised"}
    /\ out' = out \cup {"Error during execution"}
    /\ pc' = "d_exit"
    /\ UNCHANGED <<klVars, resultVars, diracVars, dosVars, raised, laterVars>>

InitDirac ==
    /\ pc = "d_load" /\ out = {}
    /\ raised = {} /\ LaterIdle
    /\ KlIdle /\ ResultIdle /\ DiracIdle /\ DosIdle

NextDirac ==
    \/ D_LoadBand \/ D_Labels \/ D_Window \/ D_Select
    \/ D_Orbital \/ D_MainCompleted \/ D_MainExcept

SpecDirac == InitDirac /\ [][NextDirac]_vars

\* ------------------------------------------------ label extraction: claims

HasMarker(line) == InLine(tKLabel, line) \/ InLine(tCoordinate, line)

\* The token an extractor reads the coordinate from.
CoordToken(v, line) == IF v = "Dirac" THEN line[Len(line)] ELSE line[2]

\* A line extractor v is to turn into a pair.
ValidLine(v, line) ==
    /\ Len(line) >= 2
    /\ float(CoordToken(v, line)).ok
    /\ v = "BAND_Orbits" => line[1][1] /= "*"

\* A line with a label and a coordinate token that is not a number.
BadCoordLine(v, line) == Len(line) >= 2 /\ ~float(CoordToken(v, line)).ok

\* The coordinates of the valid lines of ls, in file order.
RECURSIVE ValidCoords(_, _)
ValidCoords(v, ls) ==
    IF ls = << >> THEN << >>
    ELSE (IF ValidLine(v, Head(ls)) THEN <<float(CoordToken(v, Head(ls))).val>> ELSE << >>)
         \o ValidCoords(v, Tail(ls))

NotBackslash(c) == c /= "\\"

C1_File ==
    /\ kl_exists /\ kl_file /= << >>
    /\ HasMarker(kl_file[1])
    /\ \A i \in 2..Len(kl_file) :
           Len(kl_file[i]) >= 2 /\ float(kl_file[i][Len(kl_file[i])]).ok

\* C1: Dirac.py read_klabels, on a file that is a header line followed by
\* lines of at least two tokens with a numeric last token, returns one pair
\* per such line in file order: the first token without its backslashes and
\* the last token as a number.  Header + "Gamma 0.0", "K 1.5", "M 2.0" gives
\* [Gamma, K, M] and [0.0, 1.5, 2.0].
C1_HeaderThenPairs ==
    (pc = "kl_done" /\ variant = "Dirac" /\ C1_File) =>
        /\ Len(labels) = Len(kl_file) - 1
        /\ Len(sym_points) = Len(kl_file) - 1
        /\ \A i \in 1..(Len(kl_file) - 1) :
               LET line == kl_file[i + 1]
               IN /\ labels[i] = SelectSeq(line[1], NotBackslash)
                  /\ sym_points[i] = float(line[Len(line)]).val
        /\ kl_file = <<lHeader, lGamma, lK, lM>> =>
               /\ labels = <<tGamma, tK, tM>>
               /\ sym_points = <<0, (3 * Unit) \div 2, 2 * Unit>>
        /\ kl_file = <<lHeader, lBsGamma3>> =>
               labels = <<tGamma>> /\ sym_points = <<0>>

C1_Witness ==
    /\ pc = "kl_done" /\ variant = "Dirac" /\ C1_File
    /\ kl_file = <<lHeader, lGamma, lK, lM>>
    /\ labels = <<tGamma, tK, tM>>

\* C2: in every extractor, a first line without a header marker that is a
\* well-formed label/coordinate line yields a pair: the result holds the
\* pairs of all the valid lines of the file, the first line included.
C2_FirstLineKept ==
    (/\ pc = "kl_done" /\ kl_exists /\ kl_file /= << >>
     /\ ~HasMarker(kl_file[1])
     /\ ValidLine(variant, kl_file[1])) =>
        /\ sym_points = ValidCoords(variant, kl_file)
        /\ Len(labels) = Len(sym_points)

\* C3: a line whose coordinate token is not a number adds nothing, raises
\* nothing, and every other valid line of the file is still extracted: the
\* result holds exactly the pairs of the valid lines, in file order.
C3_BadLineSkipped ==
    (/\ pc \in {"kl_done", "kl_raised"} /\ kl_exists
     /\ \E i \in 1..Len(kl_file) : BadCoordLine(variant, kl_file[i])) =>
        /\ pc = "kl_done"
        /\ sym_points = ValidCoords(variant, kl_file)
        /\ Len(labels) = Len(sym_points)

\* ------------------------------------------------ analyze_dirac_cone: claims

AfterTarget == pc \in {"d_window", "d_select", "d_selected"}
AfterWindow == pc \in {"d_select", "d_selected"}

\* A missing file, an empty file, or a header line and/or blank lines only.
TrivialLabelFile ==
    \/ ~kl_exists
    \/ \A i \in 1..Len(kl_file) :
           kl_file[i] = << >> \/ (i = 1 /\ HasMarker(kl_file[1]))

IsMidpoint(x) == 2 * x = k_points[1] + k_points[Len(k_points)]

\* C4: a missing label file, an empty one and one with only a header and/or
\* blank lines give ([], []) without raising, and analyze_dirac_cone goes on
\* with the target (k_first + k_last) / 2: nothing is raised once the band
\* table is loaded.
C4_EmptyLabelsGiveMidpoint ==
    /\ (AfterTarget /\ TrivialLabelFile) =>
           /\ sym_points = << >> /\ labels = << >>
           /\ IsMidpoint(k_position)
    /\ pc = "d_raised" => k_points = << >>

C4_Witness ==
    /\ pc = "d_selected" /\ kl_exists /\ kl_file = <<lHeader, lBlank>>
    /\ sym_points = << >> /\ IsMidpoint(k_position)
    /\ k_position > 0

KLabelHits == {i \in 1..Len(labels) : Lower(labels[i]) \in KNames}

\* C5: the target position is the coordinate of the matched K label when one
\* matches, and the midpoint of the path whenever none matches, also when the
\* label list is non-empty.
C5_TargetIsKOrMidpoint ==
    AfterTarget =>
        IF KLabelHits /= {}
        THEN k_position = sym_points[CHOOSE i \in KLabelHits : \A j \in KLabelHits : i <= j]
        ELSE IsMidpoint(k_position)

\* C6: the bounds of the window satisfy 0 <= start_idx <= i < end_idx <= n
\* for the nearest row i, at the first and the last row too: the window is
\* not empty, holds the nearest row and stays inside the table.
C6_WindowInsideTable ==
    AfterWindow =>
        /\ k_index_band \in 0..(Len(k_points) - 1)
        /\ 0 <= start_idx /\ start_idx <= k_index_band
        /\ k_index_band < end_idx /\ end_idx <= Len(k_points)
        /\ Len(k_window) = end_idx - start_idx
        /\ Len(e_window) = end_idx - start_idx
        /\ k_window[k_index_band - start_idx + 1] = k_points[k_index_band + 1]
        /\ \A j \in 1..Len(k_window) :
               /\ k_window[j] = k_points[start_idx + j]
               /\ e_window[j] = energies[start_idx + j]

\* the nearest row is the last row of a long table: clipped at the end only
C6_Witness ==
    /\ AfterWindow
    /\ k_index_band = Len(k_points) - 1
    /\ start_idx > 0 /\ end_idx = Len(k_points)

\* C7: when the nearest row is at least 50 rows from both ends, the window
\* holds 50 rows before it and 50 rows after it.
C7_FiftyRowsEachSide ==
    (/\ AfterWindow
     /\ k_index_band >= window
     /\ k_index_band + window <= Len(k_points) - 1) =>
        /\ k_index_band - start_idx = window
        /\ (end_idx - 1) - k_index_band = window

RowAtTarget == energies[k_index_band + 1]
Selected == {dirac_bands[i] : i \in 1..Len(dirac_bands)}

\* C8: with at least two bands, two distinct bands are selected, at the row
\* nearest to the target, and no other band is nearer to 0 there than either
\* of them; a band at exactly 0.0 among non-zero bands is one of the two.
C8_TwoNearestBands ==
    (pc = "d_selected" /\ Len(energies[1]) >= 2) =>
        /\ Len(dirac_bands) = 2
        /\ dirac_bands[1] /= dirac_bands[2]
        /\ Selected \subseteq 0..(Len(RowAtTarget) - 1)
        /\ \A j \in 1..Len(k_points) :
               AbsV(k_points[k_index_band + 1] - k_position) <= AbsV(k_points[j] - k_position)
        /\ \A b \in (0..(Len(RowAtTarget) - 1)) \ Selected : \A c \in Selected :
               AbsV(RowAtTarget[b + 1]) >= AbsV(RowAtTarget[c + 1])
        /\ \A z \in 0..(Len(RowAtTarget) - 1) :
               (/\ RowAtTarget[z + 1] = 0
                /\ \A b \in 0..(Len(RowAtTarget) - 1) : b /= z => RowAtTarget[b + 1] /= 0)
               => z \in Selected

\* three bands, the zero band not the first one, in a row other than the first
C8_Witness ==
    /\ pc = "d_selected" /\ Len(energies[1]) = 3
    /\ k_index_band > 0
    /\ RowAtTarget[3] = 0 /\ RowAtTarget[1] /= 0 /\ RowAtTarget[2] /= 0
    /\ 2 \in Selected

\* ------------------------------------------- DOS.py: projected-DOS columns

\* a[:, c] of a two-dimensional array, c 0-based.
Column(a, c) == [r \in 1..a.shape[1] |-> a.cells[r][c + 1]]

\* np.zeros_like(a) of a one-dimensional array.
zeros_like(a) == [r \in 1..Len(a) |-> 0]

InsufficientColumns == "PDOS file: not enough columns"

\* The column selection testing for the narrow layout first.
pdos_select_narrow_first(a, energy) ==
    IF a.shape[2] >= 5
    THEN [s_dos |-> Column(a, 1), px_dos |-> Column(a, 2),
          py_dos |-> Column(a, 3), pz_dos |-> Column(a, 4), printed |-> {}]
    ELSE [s_dos |-> zeros_like(energy), px_dos |-> zeros_like(energy),
          py_dos |-> zeros_like(energy), pz_dos |-> zeros_like(energy),
          printed |-> {InsufficientColumns}]

\* The column selection taking a layout only at its exact column count.
pdos_select_exact(a, energy) ==
    IF a.shape[2] = 9
    THEN [s_dos |-> Column(a, 1), px_dos |-> Column(a, 3),
          py_dos |-> Column(a, 5), pz_dos |-> Column(a, 7), printed |-> {}]
    ELSE IF a.shape[2] = 5
    THEN [s_dos |-> Column(a, 1), px_dos |-> Column(a, 2),
          py_dos |-> Column(a, 3), pz_dos |-> Column(a, 4), printed |-> {}]
    ELSE [s_dos |-> zeros_like(energy), px_dos |-> zeros_like(energy),
          py_dos |-> zeros_like(energy), pz_dos |-> zeros_like(energy),
          printed |-> {InsufficientColumns}]

\* DOS.py l.99-118.  No index of either branch reaches past the columns its
\* test guarantees, so the IndexError handler of l.119-124 is never entered.
pdos_select(a, energy) ==
    IF a.shape[2] >= 8
    THEN [s_dos |-> Column(a, 1), px_dos |-> Column(a, 3),
          py_dos |-> Column(a, 5), pz_dos |-> Column(a, 7), printed |-> {}]
    ELSE IF a.shape[2] >= 5
    THEN [s_dos |-> Column(a, 1), px_dos |-> Column(a, 2),
          py_dos |-> Column(a, 3), pz_dos |-> Column(a, 4), printed |-> {}]
    ELSE [s_dos |-> zeros_like(energy), px_dos |-> zeros_like(energy),
          py_dos |-> zeros_like(energy), pz_dos |-> zeros_like(energy),
          printed |-> {InsufficientColumns}]

\* DOS.py l.78-93 and l.125-131: the table is read, or, the file missing,
\* every array is empty.
P_Load ==
    /\ pc = "p_load"
    /\ UNCHANGED <<raised, laterVars>>
    /\ \E found \in BOOLEAN, nrows \in 1..MaxPRows, ncols \in 1..MaxCols, seed \in 0..MaxSeed :
           IF found
           THEN /\ pdos_data' = loadtxt(nrows, ncols, seed)
                /\ pc' = "p_energy"
                /\ UNCHANGED <<out, pdos_energy, s_dos, px_dos, py_dos, pz_dos>>
           ELSE /\ out' = out \cup {"PDOS_USER.dat not found"}
                /\ pdos_energy' = << >>
                /\ s_dos' = << >> /\ px_dos' = << >>
                /\ py_dos' = << >> /\ pz_dos' = << >>
                /\ pc' = "p_done"
                /\ UNCHANGED pdos_data
    /\ UNCHANGED <<klVars, resultVars, diracVars>>

\* DOS.py l.96: pdos_data[:, 0] raises IndexError on a one-dimensional
\* array, outside every try block.
P_Energy ==
    /\ pc = "p_energy"
    /\ UNCHANGED <<raised, laterVars>>
    /\ IF Len(pdos_data.shape) = 2
       THEN /\ pdos_energy' = Column(pdos_data, 0)
            /\ pc' = "p_select"
       ELSE /\ pc' = "p_raised"
            /\ UNCHANGED pdos_energy
    /\ UNCHANGED <<out, klVars, resultVars, diracVars, pdos_data,
                   s_dos, px_dos, py_dos, pz_dos>>

\* DOS.py l.98-124.
P_Select ==
    /\ pc = "p_select"
    /\ UNCHANGED <<raised, laterVars>>
    /\ LET got == pdos_select(pdos_data, pdos_energy)
       IN /\ s_dos' = got.s_dos /\ px_dos' = got.px_dos
          /\ py_dos' = got.py_dos /\ pz_dos' = got.pz_dos
          /\ out' = out \cup got.printed
    /\ pc' = "p_done"
    /\ UNCHANGED <<klVars, resultVars, diracVars, pdos_data, pdos_energy>>

InitDOS ==
    /\ pc = "p_load" /\ out = {}
    /\ raised = {} /\ LaterIdle
    /\ KlIdle /\ ResultIdle /\ DiracIdle /\ DosIdle

NextDOS == P_Load \/ P_Energy \/ P_Select

SpecDOS == InitDOS /\ [][NextDOS]_vars

\* ---------------------------------------------------------- DOS.py: claims

Selected2D == pc = "p_done" /\ Len(pdos_data.shape) = 2
NCols == pdos_data.shape[2]
NRows == pdos_data.shape[1]
Zeros(n) == [r \in 1..n |-> 0]
Channels == <<s_dos, px_dos, py_dos, pz_dos>>
\* the cells of column c (0-based) of the table
ColumnCells(c) == [r \in 1..NRows |-> pdos_data.cells[r][c + 1]]

\* C9: the selection follows the column count alone: 9 columns give the
\* channels of columns 1, 3, 5, 7, 5 columns those of columns 1, 2, 3, 4, and
\* 3 columns four all-zero channels and a diagnostic; the selection raises
\* nothing (only a one-dimensional table stops the script, before it).
C9_LayoutByColumnCount ==
    /\ Selected2D =>
        /\ NCols = 9 =>
               /\ Channels = <<ColumnCells(1), ColumnCells(3), ColumnCells(5), ColumnCells(7)>>
               /\ InsufficientColumns \notin out
        /\ NCols = 5 =>
               /\ Channels = <<ColumnCells(1), ColumnCells(2), ColumnCells(3), ColumnCells(4)>>
               /\ InsufficientColumns \notin out
        /\ NCols = 3 =>
               /\ Channels = <<Zeros(NRows), Zeros(NRows), Zeros(NRows), Zeros(NRows)>>
               /\ InsufficientColumns \in out
    /\ pc = "p_raised" => Len(pdos_data.shape) = 1

C9_Witness ==
    /\ Selected2D /\ NCols = 9 /\ NRows >= 2
    /\ s_dos = ColumnCells(1) /\ pz_dos = ColumnCells(7)
    /\ s_dos /= px_dos

\* C10 as stated: every column count other than 9 and 5 gives four zero-filled
\* channels as long as the table, and a diagnostic.
C10_UnknownLayoutZeroFilled ==
    (Selected2D /\ NCols \notin {5, 9}) =>
        /\ Channels = <<Zeros(NRows), Zeros(NRows), Zeros(NRows), Zeros(NRows)>>
        /\ InsufficientColumns \in out

\* C10 as amended: fewer than 5 columns (2, 3, 4) give four zero-filled
\* channels as long as the table, and a diagnostic; 5 to 7 columns are read
\* in the non-spin layout and 8 or more in the spin-resolved layout, without
\* a diagnostic.
C10_TooFewColumnsZeroFilled ==
    Selected2D =>
        /\ NCols < 5 =>
               /\ Channels = <<Zeros(NRows), Zeros(NRows), Zeros(NRows), Zeros(NRows)>>
               /\ InsufficientColumns \in out
        /\ NCols \in 5..7 =>
               /\ Channels = <<ColumnCells(1), ColumnCells(2), ColumnCells(3), ColumnCells(4)>>
               /\ InsufficientColumns \notin out
        /\ NCols >= 8 =>
               /\ Channels = <<ColumnCells(1), ColumnCells(3), ColumnCells(5), ColumnCells(7)>>
               /\ InsufficientColumns \notin out

C10_Witness ==
    /\ Selected2D /\ NCols = 4 /\ NRows = 3
    /\ Channels = <<Zeros(3), Zeros(3), Zeros(3), Zeros(3)>>
    /\ InsufficientColumns \in out

\* the sum of columns c and c + 1 (0-based) of the table
PairSum(c) == [r \in 1..NRows |-> pdos_data.cells[r][c + 1] + pdos_data.cells[r][c + 2]]

\* C11 as stated: on a 9-column table each channel is the sum of its spin-up
\* and spin-down columns: s = col1 + col2, then col3 + col4, col5 + col6 and
\* col7 + col8.
C11_SpinSummedPairs ==
    (Selected2D /\ NCols = 9) =>
        Channels = <<PairSum(1), PairSum(3), PairSum(5), PairSum(7)>>

\* ------------------------------------------- DOS.py: extract_fermi_energy

\* A Python float: finite (val / Unit), infinite (val is the sign) or nan.
Finite(v) == [cls |-> "finite", val |-> v]

\* float(s) on a stripped text: the decimal notation of float above, and the
\* words inf, infinity and nan in any case, with an optional sign.
float_text(s) ==
    LET signed == s /= << >> /\ s[1] \in {"+", "-"}
        word == Lower(IF signed THEN Tail(s) ELSE s)
        sign == IF signed /\ s[1] = "-" THEN 0 - 1 ELSE 1
    IN IF word \in {<<"i", "n", "f">>, <<"i", "n", "f", "i", "n", "i", "t", "y">>}
       THEN [ok |-> TRUE, num |-> [cls |-> "inf", val |-> sign]]
       ELSE IF word = <<"n", "a", "n">>
       THEN [ok |-> TRUE, num |-> [cls |-> "nan", val |-> 0]]
       ELSE [ok |-> float(s).ok, num |-> Finite(float(s).val)]

\* The text of a file: the tokens of a line joined by one blank, every line
\* ended by a newline.
RECURSIVE Concat(_)
Concat(ts) == IF ts = << >> THEN << >> ELSE Head(ts) \o Concat(Tail(ts))

\* The text of a line: its tokens joined by one blank.
JoinTokens(line) ==
    Concat([i \in 1..Len(line) |-> IF i = 1 THEN line[i] ELSE <<" ">> \o line[i]])

RECURSIVE ReadText(_)
ReadText(ls) ==
    IF ls = << >> THEN << >>
    ELSE JoinTokens(Head(ls)) \o <<"\n">> \o ReadText(Tail(ls))

IsSpace(c) == c \in {" ", "\n"}

\* str.strip(): the whitespace at both ends removed.
strip(s) ==
    LET inked == {i \in 1..Len(s) : ~IsSpace(s[i])}
    IN IF inked = {} THEN << >>
       ELSE SubSeq(s, CHOOSE i \in inked : \A j \in inked : i <= j,
                      CHOOSE i \in inked : \A j \in inked : i >= j)

\* The end (exclusive) of the run of digits that starts at position p.
DigitsEnd(s, p) ==
    CHOOSE q \in p..(Len(s) + 1) :
        /\ \A i \in p..(q - 1) : IsDigit(s[i])
        /\ q = Len(s) + 1 \/ ~IsDigit(s[q])

\* The end (exclusive) of a match of \d*\.\d+ at position p, 0 if none.
DecimalEnd(s, p) ==
    LET d == DigitsEnd(s, p)
    IN IF d <= Len(s) /\ s[d] = "." /\ DigitsEnd(s, d + 1) > d + 1
       THEN DigitsEnd(s, d + 1) ELSE 0

\* The end (exclusive) of the match of [-+]?\d*\.\d+|\d+ at position p, 0 if
\* none: the first alternative with the sign, then without it, then \d+.
MatchEnd(s, p) ==
    IF s[p] \in {"-", "+"} /\ DecimalEnd(s, p + 1) > 0 THEN DecimalEnd(s, p + 1)
    ELSE IF DecimalEnd(s, p) > 0 THEN DecimalEnd(s, p)
    ELSE IF DigitsEnd(s, p) > p THEN DigitsEnd(s, p)
    ELSE 0

\* re.findall(r'[-+]?\d*\.\d+|\d+', s): the list of matches, of which the
\* code reads only the first (<< >> stands for the empty list).
findall(s) ==
    LET starts == {p \in 1..Len(s) : MatchEnd(s, p) > 0}
        first == CHOOSE p \in starts : \A q \in starts : p <= q
    IN IF starts = {} THEN << >>
       ELSE <<SubSeq(s, first, MatchEnd(s, first) - 1)>>

\* content.splitlines()[-1] of a stripped, non-empty text.
LastLine(s) ==
    LET breaks == {i \in 1..Len(s) : s[i] = "\n"}
    IN IF breaks = {} THEN s
       ELSE SubSeq(s, (CHOOSE i \in breaks : \A j \in breaks : i >= j) + 1, Len(s))

FermiNotFound == "FERMI_ENERGY file not found"
CannotExtract == "cannot extract the Fermi energy, using the default 0.0 eV"

\* The extraction with the two fallbacks in the other order: the last line is
\* tried before the pattern.
extract_last_line_first(text) ==
    LET direct == float_text(text)
        matches == findall(text)
        last == float_text(LastLine(text))
    IN IF direct.ok THEN [value |-> direct.num, printed |-> {}]
       ELSE IF text /= << >> /\ last.ok THEN [value |-> last.num, printed |-> {}]
       ELSE IF matches /= << >> /\ float_text(matches[1]).ok
       THEN [value |-> float_text(matches[1]).num, printed |-> {}]
       ELSE [value |-> Finite(0), printed |-> {CannotExtract}]

\* DOS.py l.16-44: the chain of attempts on the stripped content; every
\* float() that fails raises ValueError, which the code catches and passes.
extract_fermi_energy(text) ==
    LET direct == float_text(text)
        matches == findall(text)
        last == float_text(LastLine(text))
    IN IF direct.ok THEN [value |-> direct.num, printed |-> {}]
       ELSE IF matches /= << >> /\ float_text(matches[1]).ok
       THEN [value |-> float_text(matches[1]).num, printed |-> {}]
       ELSE IF text /= << >> /\ last.ok THEN [value |-> last.num, printed |-> {}]
       ELSE [value |-> Finite(0), printed |-> {CannotExtract}]

\* The lines a FERMI_ENERGY file is made of.
FermiLineVocab ==
    { <<<<"-", "2", ".", "5">>>>,
      <<<<"-", "3">>>>,
      <<<<"E", "_", "f", "e", "r", "m", "i">>, <<"=">>, <<"-", "3">>>>,
      <<<<"E", "_", "f", "e", "r", "m", "i">>, <<"=">>, <<"-", "2", ".", "5">>>>,
      <<tabc>>,
      <<<<"i", "n", "f">>>>,
      lBlank }

notFermi == <<firstVars, encutVars, kpVars, pbandVars, orbitsVars, latticeVars>>

\* DOS.py l.9-14: the existence test, and the read of the whole file.
F_Read ==
    /\ pc = "f_read"
    /\ IF ~fermi_exists
       THEN /\ out' = out \cup {FermiNotFound}
            /\ fermi_energy' = Finite(0)
            /\ pc' = "f_returned"
            /\ UNCHANGED content
       ELSE /\ content' = strip(ReadText(fermi_file))
            /\ pc' = "f_parse"
            /\ UNCHANGED <<out, fermi_energy>>
    /\ UNCHANGED <<fermi_exists, fermi_file, notFermi>>

\* DOS.py l.16-44, and the assignment of l.48.
F_Parse ==
    /\ pc = "f_parse"
    /\ LET got == extract_fermi_energy(content)
       IN /\ fermi_energy' = got.value
          /\ out' = out \cup got.printed
    /\ pc' = "f_returned"
    /\ UNCHANGED <<fermi_exists, fermi_file, content, notFermi>>

InitFermi ==
    /\ pc = "f_read" /\ out = {}
    /\ FirstIdle /\ EncutIdle /\ KpIdle /\ PbandIdle
    /\ OrbitsIdle /\ LatticeIdle
    /\ fermi_exists \in BOOLEAN
    /\ fermi_file \in (IF fermi_exists THEN SeqsUpTo(FermiLineVocab, MaxFLines) ELSE {<< >>})
    /\ content = << >> /\ fermi_energy = None

NextFermi == F_Read \/ F_Parse

SpecFermi == InitFermi /\ [][NextFermi]_vars

Returned == pc = "f_returned"
Direct == float_text(content)
IsNumber(x) == x.cls \in {"finite", "inf", "nan"}

\* C12: the fallbacks apply in the fixed order missing file, direct parse,
\* first match of the pattern, last line, default 0.0 with a diagnostic; the
\* call returns a number for every content (no state of the extraction is a
\* raise).
C12_FallbackOrder ==
    /\ pc \in {"f_read", "f_parse", "f_returned"}
    /\ Returned =>
        /\ IsNumber(fermi_energy)
        /\ ~fermi_exists => fermi_energy = Finite(0) /\ FermiNotFound \in out
        /\ fermi_exists /\ Direct.ok => fermi_energy = Direct.num
        /\ fermi_exists /\ ~Direct.ok /\ findall(content) /= << >> =>
               fermi_energy = float_text(findall(content)[1]).num
        /\ fermi_exists /\ ~Direct.ok /\ findall(content) = << >>
             /\ float_text(LastLine(content)).ok =>
               fermi_energy = float_text(LastLine(content)).num
        /\ fermi_exists /\ ~Direct.ok /\ findall(content) = << >>
             /\ ~float_text(LastLine(content)).ok =>
               fermi_energy = Finite(0) /\ CannotExtract \in out
        /\ CannotExtract \in out =>
               ~Direct.ok /\ findall(content) = << >>

\* The last-line fallback decides: "abc" then "inf" returns infinity.
C12_Witness ==
    /\ Returned /\ fermi_exists
    /\ fermi_file = <<<<tabc>>, <<<<"i", "n", "f">>>>>>
    /\ fermi_energy = [cls |-> "inf", val |-> 1]
    /\ out = {}

\* The first number of a text with its sign: it starts at the first digit, or
\* at the first dot that a digit follows, takes the sign in front of it if
\* there is one, and runs over the digits and one fractional part.
FirstSignedNumber(s) ==
    LET starts == {p \in 1..Len(s) :
                      \/ IsDigit(s[p])
                      \/ s[p] = "." /\ p < Len(s) /\ IsDigit(s[p + 1])}
        p == CHOOSE i \in starts : \A j \in starts : i <= j
        from == IF p > 1 /\ s[p - 1] \in {"-", "+"} THEN p - 1 ELSE p
        to == IF DecimalEnd(s, p) > 0 THEN DecimalEnd(s, p) ELSE DigitsEnd(s, p)
    IN IF starts = {} THEN << >> ELSE SubSeq(s, from, to - 1)

\* C17 as stated: when the content does not parse directly and holds a number,
\* the value returned is the first number of the text with its sign, for an
\* integer ("E_fermi = -3" gives -3.0) as for a decimal.
C17_FirstNumberWithSign ==
    (Returned /\ fermi_exists /\ ~Direct.ok /\ FirstSignedNumber(content) /= << >>) =>
        fermi_energy = float_text(FirstSignedNumber(content)).num

\* ------------------------------------- ENCUT_TEST.py: the convergence sweep

\* Energies are fixed point in units of 0.1 meV: val stands for val / EUnit eV.
EUnit == 10 * 1000
\* 0.001 eV.
OneMeV == EUnit \div 1000

NaN == [cls |-> "nan", val |-> 0]
\* what extract_energy_from_outcar returns for a file without a TOTEN line
NoEnergy == [cls |-> "none", val |-> 0]

\* An OUTCAR file is what the extraction reads from it: the energy of its
\* TOTEN line, or none.  The energies are -10.0000, -10.0005, -10.0006 and
\* -10.0030 eV: no two of them differ by 0.001 exactly, where the result of
\* the floating-point comparison would hang on the rounding.
SweepEnergies == {0 - 100000, 0 - 100005, 0 - 100006, 0 - 100030}
OutcarStates ==
    {[exists |-> FALSE, energy |-> NoEnergy]}
        \cup {[exists |-> TRUE, energy |-> e] :
                 e \in {NoEnergy} \cup {Finite(v) : v \in SweepEnergies}}

\* ENCUT_TEST.py l.33; a sweep of the model runs over the first values of it.
EncutList == <<200, 250, 300, 350, 400, 450, 500, 550>>

\* abs(b - a) of two floats: nan if either is nan.
abs_diff_nan_as_zero(a, b) ==
    Finite(AbsV((IF b.cls = "nan" THEN 0 ELSE b.val)
                    - (IF a.cls = "nan" THEN 0 ELSE a.val)))
abs_diff(a, b) ==
    IF a.cls = "nan" \/ b.cls = "nan" THEN NaN ELSE Finite(AbsV(b.val - a.val))

\* np.abs(np.diff(es))
np_abs_diff(es) == [i \in 1..(Len(es) - 1) |-> abs_diff(es[i], es[i + 1])]

\* x < t for a float x: False for nan.
Below(x, t) == x.cls = "finite" /\ x.val < t

\* The scan that keeps the last difference below the threshold.
last_converged(diffs) ==
    LET hits == {i \in 1..Len(diffs) : Below(diffs[i], OneMeV)}
    IN IF hits = {} THEN NoIndex ELSE CHOOSE i \in hits : \A j \in hits : i >= j
\* ENCUT_TEST.py l.60-64: the scan stops at the first difference below
\* 0.001; difference i (0-based) gives index i + 1.
first_converged(diffs) ==
    LET hits == {i \in 1..Len(diffs) : Below(diffs[i], OneMeV)}
    IN IF hits = {} THEN NoIndex ELSE CHOOSE i \in hits : \A j \in hits : i <= j

notEncut == <<firstVars, fermiVars, kpVars, pbandVars, orbitsVars, latticeVars>>

\* ENCUT_TEST.py l.37-45, one turn of the loop: a missing file appends nan; a
\* file without a TOTEN line appends None, which the format of l.42 then
\* refuses with TypeError.
E_Collect ==
    /\ pc = "e_collect"
    /\ Len(encut_energies) < Len(encut_values)
    /\ LET file == outcars[Len(encut_energies) + 1]
       IN IF ~file.exists
          THEN /\ encut_energies' = Append(encut_energies, NaN)
               /\ out' = out \cup {"OUTCAR not found"}
               /\ pc' = pc
          ELSE /\ encut_energies' = Append(encut_energies, file.energy)
               /\ out' = out
               /\ pc' = IF file.energy = NoEnergy THEN "e_raised" ELSE pc
    /\ UNCHANGED <<outcars, encut_values, energy_diffs, convergence_index, notEncut>>

\* ENCUT_TEST.py l.47-72: the plot, and the mark of the convergence point.
E_Scan ==
    /\ pc = "e_collect"
    /\ Len(encut_energies) = Len(encut_values)
    /\ IF Len(encut_energies) > 1
       THEN /\ energy_diffs' = np_abs_diff(encut_energies)
            /\ convergence_index' = first_converged(energy_diffs')
            /\ out' = out \cup (IF convergence_index' /= NoIndex
                                THEN {"ENCUT converged"}
                                ELSE {"ENCUT did not converge within tested range"})
       ELSE UNCHANGED <<energy_diffs, convergence_index, out>>
    /\ pc' = "e_scanned"
    /\ UNCHANGED <<outcars, encut_values, encut_energies, notEncut>>

\* ENCUT_TEST.py l.74-78: the figure is saved and the two lists are returned.
E_Return ==
    /\ pc = "e_scanned"
    /\ out' = out \cup {"encut_convergence.png"}
    /\ pc' = "e_returned"
    /\ UNCHANGED <<encutVars, notEncut>>

InitEncut ==
    /\ pc = "e_collect" /\ out = {}
    /\ FirstIdle /\ FermiIdle /\ KpIdle /\ PbandIdle
    /\ OrbitsIdle /\ LatticeIdle
    /\ \E n \in 1..MaxSweep :
          /\ encut_values = SubSeq(EncutList, 1, n)
          /\ outcars \in [1..n -> OutcarStates]
    /\ encut_energies = << >> /\ energy_diffs = << >>
    /\ convergence_index = NoIndex

NextEncut == E_Collect \/ E_Scan \/ E_Return

SpecEncut == InitEncut /\ [][NextEncut]_vars

Scanned == pc \in {"e_scanned", "e_returned"}
\* |E_i - E_(i-1)| < 0.001 for the 0-based parameter index i >= 1
AdjacentBelow(i) ==
    /\ encut_energies[i].cls = "finite" /\ encut_energies[i + 1].cls = "finite"
    /\ AbsV(encut_energies[i + 1].val - encut_energies[i].val) < OneMeV
ExampleEnergies == <<Finite(0 - 100000), Finite(0 - 100005), Finite(0 - 100006)>>

\* C13: the sweep declares convergence at the first parameter index i >= 1
\* with |E_i - E_(i-1)| < 0.001 and at no earlier one (250 for the values
\* 200, 250, 300 with energies -10.000, -10.0005, -10.0006); if there is
\* none it says so, and in both cases the figure is saved and the function
\* returns.
C13_FirstAdjacentBelow ==
    /\ (Scanned /\ Len(encut_energies) > 1) =>
        /\ convergence_index /= NoIndex =>
              /\ convergence_index \in 1..(Len(encut_values) - 1)
              /\ AdjacentBelow(convergence_index)
              /\ \A j \in 1..(convergence_index - 1) : ~AdjacentBelow(j)
              /\ "ENCUT converged" \in out
        /\ convergence_index = NoIndex =>
              /\ \A j \in 1..(Len(encut_values) - 1) : ~AdjacentBelow(j)
              /\ "ENCUT did not converge within tested range" \in out
        /\ encut_energies = ExampleEnergies =>
              encut_values[convergence_index + 1] = 250
    /\ pc = "e_scanned" => ENABLED E_Return
    /\ pc = "e_returned" =>
          /\ "encut_convergence.png" \in out
          /\ Len(encut_energies) = Len(encut_values)

C13_Witness ==
    /\ pc = "e_returned"
    /\ encut_values = <<200, 250, 300>> /\ encut_energies = ExampleEnergies
    /\ convergence_index = 1
    /\ "ENCUT converged" \in out

\* C15: a missing OUTCAR never stops the sweep; after the loop the list holds
\* one entry per parameter value, in order, nan exactly for the missing
\* files, and convergence is never declared at a missing entry or at the
\* entry after one.
C15_MissingFileGivesNaN ==
    /\ Len(encut_energies) <= Len(encut_values)
    /\ \A i \in 1..Len(encut_energies) :
          /\ ~outcars[i].exists <=> encut_energies[i] = NaN
          /\ outcars[i].exists => encut_energies[i] = outcars[i].energy
    /\ pc = "e_raised" => outcars[Len(encut_energies)].exists
    /\ Scanned =>
          /\ Len(encut_energies) = Len(encut_values)
          /\ \A i \in 1..Len(energy_diffs) :
                (~outcars[i].exists \/ ~outcars[i + 1].exists) =>
                    ~Below(energy_diffs[i], OneMeV)
          /\ convergence_index /= NoIndex =>
                /\ outcars[convergence_index].exists
                /\ outcars[convergence_index + 1].exists

\* Two close energies with a missing file between them: nothing converges.
C15_Witness ==
    /\ pc = "e_returned"
    /\ Len(outcars) = 3
    /\ outcars[1].exists /\ ~outcars[2].exists /\ outcars[3].exists
    /\ encut_energies = <<Finite(0 - 100005), NaN, Finite(0 - 100006)>>
    /\ convergence_index = NoIndex
    /\ "OUTCAR not found" \in out

\* --------------------------------- KPOINTS_TEST.py: the convergence sweep

\* KPOINTS_TEST.py l.101
threshold == OneMeV

\* Folder names: the prefix of l.55 and a suffix.
KFolder(suffix) == <<"K", "P", "O", "I", "N", "T", "S", "_">> \o suffix
KFolderNames ==
    {KFolder(<<"3">>), KFolder(<<"5">>), KFolder(<<"1", "1">>), KFolder(<<"o", "l", "d">>)}

\* A folder on disk: whether it exists, and its OUTCAR.
KFolderStates ==
    {[dir |-> d, outcar |-> o] : d \in BOOLEAN, o \in OutcarStates} \ 
        {[dir |-> FALSE, outcar |-> o] : o \in {x \in OutcarStates : x.exists}}

\* get_kpoints_from_folder: int() of the text after the last underscore,
\* NoIndex (None) where int() raises.  Signs, blanks and digit-group
\* underscores do not occur in the names of this model.
get_kpoints_from_folder(folder_path) ==
    LET bars == {i \in 1..Len(folder_path) : folder_path[i] = "_"}
        from == IF bars = {} THEN 1 ELSE (CHOOSE i \in bars : \A j \in bars : i >= j) + 1
        field == SubSeq(folder_path, from, Len(folder_path))
    IN IF field /= << >> /\ AllDigits(field) THEN IntOf(field) ELSE NoIndex

\* sorted(keys)
sorted(keys) ==
    CHOOSE f \in [1..Cardinality(keys) -> keys] :
        \A a, b \in 1..Cardinality(keys) : a < b => f[a] < f[b]

\* The differences to the energy of the first key instead of the last.
differences_to_first(sorted_energies) ==
    [i \in 1..Len(sorted_energies) |-> abs_diff(sorted_energies[i], sorted_energies[1])]
\* KPOINTS_TEST.py l.78-79: the differences to the energy of the largest key.
differences_to_ref(sorted_energies) ==
    LET ref_energy == sorted_energies[Len(sorted_energies)]
    IN [i \in 1..Len(sorted_energies) |-> abs_diff(sorted_energies[i], ref_energy)]

\* The scan that leaves out the first key, as a scan of adjacent differences does.
converged_after_first(keys, diffs) ==
    LET hits == {i \in 2..Len(keys) : Below(diffs[i], threshold)}
    IN IF hits = {} THEN NoIndex ELSE keys[CHOOSE i \in hits : \A j \in hits : i <= j]
\* The scan that leaves out the largest key, the reference itself.
converged_before_reference(keys, diffs) ==
    LET hits == {i \in 1..(Len(keys) - 1) : Below(diffs[i], threshold)}
    IN IF hits = {} THEN NoIndex ELSE keys[CHOOSE i \in hits : \A j \in hits : i <= j]
\* KPOINTS_TEST.py l.102-107: the first key whose difference is below the
\* threshold.
converged_key(keys, diffs) ==
    LET hits == {i \in 1..Len(keys) : Below(diffs[i], threshold)}
    IN IF hits = {} THEN NoIndex ELSE keys[CHOOSE i \in hits : \A j \in hits : i <= j]

notKp == <<firstVars, fermiVars, encutVars, pbandVars, orbitsVars, latticeVars>>

\* KPOINTS_TEST.py l.58-67, one turn of the loop.
K_Collect ==
    /\ pc = "k_collect"
    /\ kp_i < Len(base_dirs)
    /\ kp_i' = kp_i + 1
    /\ LET folder == base_dirs[kp_i + 1]
           disk == kfolders[kp_i + 1]
           kpoints == get_kpoints_from_folder(folder)
           energy == disk.outcar.energy
       IN IF disk.dir /\ disk.outcar.exists
          THEN /\ results' = IF kpoints /= NoIndex /\ energy /= NoEnergy
                             THEN (kpoints :> energy) @@ results
                             ELSE results
               /\ out' = out
                    \cup (IF kpoints = NoIndex THEN {"cannot extract the KPOINTS value"} ELSE {})
          ELSE UNCHANGED <<results, out>>
    /\ UNCHANGED <<pc, base_dirs, kfolders, sorted_kpoints, energy_differences,
                   converged_kpoints, notKp>>

\* KPOINTS_TEST.py l.69-71: nothing usable was found.
K_Empty ==
    /\ pc = "k_collect"
    /\ kp_i = Len(base_dirs)
    /\ DOMAIN results = {}
    /\ out' = out \cup {"no valid OUTCAR file found"}
    /\ pc' = "k_returned_empty"
    /\ UNCHANGED <<kpVars, notKp>>

\* KPOINTS_TEST.py l.73-93: the sorted keys, the differences and the figure.
K_Plot ==
    /\ pc = "k_collect"
    /\ kp_i = Len(base_dirs)
    /\ DOMAIN results /= {}
    /\ sorted_kpoints' = sorted(DOMAIN results)
    /\ energy_differences' =
          differences_to_ref([i \in 1..Len(sorted_kpoints') |-> results[sorted_kpoints'[i]]])
    /\ out' = out \cup {"kpoints_convergence.png"}
    /\ pc' = "k_plotted"
    /\ UNCHANGED <<base_dirs, kfolders, kp_i, results, converged_kpoints, notKp>>

\* KPOINTS_TEST.py l.95-110: the convergence report.
K_Scan ==
    /\ pc = "k_plotted"
    /\ converged_kpoints' = converged_key(sorted_kpoints, energy_differences)
    /\ out' = out \cup (IF converged_kpoints' /= NoIndex
                        THEN {"convergence point found"}
                        ELSE {"no convergence point in the tested range"})
    /\ pc' = "k_returned"
    /\ UNCHANGED <<base_dirs, kfolders, kp_i, results, sorted_kpoints,
                   energy_differences, notKp>>

InitKp ==
    /\ pc = "k_collect" /\ out = {}
    /\ FirstIdle /\ FermiIdle /\ EncutIdle /\ PbandIdle
    /\ OrbitsIdle /\ LatticeIdle
    /\ \E n \in 1..MaxDirs :
          /\ base_dirs \in {d \in [1..n -> KFolderNames] :
                               \A a, b \in 1..n : a /= b => d[a] /= d[b]}
          /\ kfolders \in [1..n -> KFolderStates]
    /\ kp_i = 0 /\ results = << >>
    /\ sorted_kpoints = << >> /\ energy_differences = << >>
    /\ converged_kpoints = NoIndex

NextKp == K_Collect \/ K_Empty \/ K_Plot \/ K_Scan

SpecKp == InitKp /\ [][NextKp]_vars

\* folder i of the list exists, holds an OUTCAR, and yields a key and an energy
Usable(i) ==
    /\ kfolders[i].dir /\ kfolders[i].outcar.exists
    /\ get_kpoints_from_folder(base_dirs[i]) /= NoIndex
    /\ kfolders[i].outcar.energy /= NoEnergy
UsableKeys == {get_kpoints_from_folder(base_dirs[i]) : i \in {j \in 1..Len(base_dirs) : Usable(j)}}
EnergyOfKey(k) ==
    kfolders[CHOOSE i \in 1..Len(base_dirs) :
                 Usable(i) /\ get_kpoints_from_folder(base_dirs[i]) = k].outcar.energy
MaxKey == CHOOSE k \in UsableKeys : \A j \in UsableKeys : k >= j
NearRef(k) == AbsV(EnergyOfKey(k).val - EnergyOfKey(MaxKey).val) < OneMeV

\* C18: the results hold exactly the usable folders; the keys are taken in
\* ascending order whatever the order of the folder list; the reference is
\* the energy of the largest key; the point declared is the smallest key k
\* with |E_k - E_ref| < 0.001; with no usable folder the function says so
\* and returns before the figure and the scan.
C18_UsableSortedReference ==
    /\ pc \in {"k_plotted", "k_returned"} =>
          /\ DOMAIN results = UsableKeys /\ UsableKeys /= {}
          /\ \A k \in UsableKeys : results[k] = EnergyOfKey(k)
          /\ Len(sorted_kpoints) = Cardinality(UsableKeys)
          /\ \A i \in 1..Len(sorted_kpoints) :
                /\ sorted_kpoints[i] \in UsableKeys
                /\ i > 1 => sorted_kpoints[i - 1] < sorted_kpoints[i]
                /\ energy_differences[i] =
                      Finite(AbsV(EnergyOfKey(sorted_kpoints[i]).val - EnergyOfKey(MaxKey).val))
    /\ pc = "k_returned" =>
          /\ converged_kpoints \in UsableKeys
          /\ NearRef(converged_kpoints)
          /\ \A k \in UsableKeys : k < converged_kpoints => ~NearRef(k)
    /\ pc = "k_returned_empty" =>
          /\ UsableKeys = {} /\ kp_i = Len(base_dirs)
          /\ "no valid OUTCAR file found" \in out
          /\ "kpoints_convergence.png" \notin out
          /\ sorted_kpoints = << >> /\ converged_kpoints = NoIndex
    /\ pc = "k_collect" /\ kp_i = Len(base_dirs) /\ UsableKeys = {} => ~ENABLED K_Plot

\* The folders listed as 11, 3, 5: the keys are taken as 3, 5, 11 and the
\* point declared is 5.
C18_Witness ==
    /\ pc = "k_returned"
    /\ base_dirs = <<KFolder(<<"1", "1">>), KFolder(<<"3">>), KFolder(<<"5">>)>>
    /\ sorted_kpoints = <<3, 5, 11>>
    /\ energy_differences = <<Finite(24), Finite(1), Finite(0)>>
    /\ converged_kpoints = 5

SortedEnergies == [i \in 1..Len(sorted_kpoints) |-> results[sorted_kpoints[i]]]

\* C14 as stated: with energies -10.000, -10.0005, -10.0006 in ascending key
\* order the scan of differences to the largest-key energy declares the
\* second key, as the scan of adjacent differences does.
C14_SecondValueDeclared ==
    (pc = "k_returned" /\ SortedEnergies = ExampleEnergies) =>
        converged_kpoints = sorted_kpoints[2]

\* C14 as amended: on these energies the differences to the reference are
\* 0.0006, 0.0001 and 0, all below 0.001, so the first key is declared; the
\* scan of adjacent differences declares the second one on the same energies.
C14_FirstValueDeclared ==
    (pc = "k_returned" /\ SortedEnergies = ExampleEnergies) =>
        /\ energy_differences = <<Finite(6), Finite(1), Finite(0)>>
        /\ converged_kpoints = sorted_kpoints[1]
        /\ first_converged(np_abs_diff(SortedEnergies)) = 1

C14_Witness ==
    /\ pc = "k_returned"
    /\ sorted_kpoints = <<3, 5, 11>>
    /\ SortedEnergies = ExampleEnergies
    /\ converged_kpoints = 3

\* ----------------------------------------- Dirac.py: error policy, claims

Completed == "Analysis completed!" \in out
Reported == "Error during execution" \in out
\* the exceptions that leave analyze_dirac_cone
Escaping == {"REFORMATTED_BAND.dat", "TDOS.dat", "PDOS mask"}
DiracPcs ==
    {"d_load", "d_labels", "d_window", "d_select", "d_selected", "d_raised",
     "d_orbital_raised", "d_returned", "d_exit"}
LabelsRead == pc \in {"d_window", "d_select", "d_selected"}

BandIndexMarker == <<"#", " ", "B", "a", "n", "d", "-", "I", "n", "d", "e", "x">>

\* s.startswith(prefix)
StartsWith(s, prefix) ==
    Len(s) >= Len(prefix) /\ SubSeq(s, 1, Len(prefix)) = prefix

\* The end (exclusive) of the run of blanks that starts at position p.
SpacesEnd(s, p) ==
    CHOOSE q \in p..(Len(s) + 1) :
        /\ \A i \in p..(q - 1) : IsSpace(s[i])
        /\ q = Len(s) + 1 \/ ~IsSpace(s[q])

\* re.search(r"# Band-Index\s+(\d+)", s) and int(match.group(1)): NoIndex
\* where there is no match.
band_index_of(s) ==
    LET n == Len(BandIndexMarker)
        hits == {p \in 1..Len(s) :
                    /\ p + n - 1 <= Len(s)
                    /\ SubSeq(s, p, p + n - 1) = BandIndexMarker
                    /\ SpacesEnd(s, p + n) > p + n
                    /\ DigitsEnd(s, SpacesEnd(s, p + n)) > SpacesEnd(s, p + n)}
        p0 == CHOOSE p \in hits : \A q \in hits : p <= q
        from == SpacesEnd(s, p0 + n)
    IN IF hits = {} THEN NoIndex
       ELSE IntOf(SubSeq(s, from, DigitsEnd(s, from) - 1))

\* np.array([list(map(float, line.split())) for line in data_lines]); the
\* data rows of this model hold decimal tokens only.
band_array(rows) ==
    [r \in 1..Len(rows) |-> [c \in 1..Len(rows[r]) |-> float(rows[r][c]).val]]

\* The lines of a PBAND_C.dat file: the markers of bands 1 and 2, a marker
\* without an index, the column header, two data rows and the blank line.
PbandLineVocab ==
    LET index == <<"B", "a", "n", "d", "-", "I", "n", "d", "e", "x">>
    IN { <<<<"#">>, index, <<"1">>>>,
         <<<<"#">>, index, <<"2">>>>,
         <<<<"#">>, index>>,
         <<<<"#", "K", "-", "P", "a", "t", "h">>, <<"E", "n", "e", "r", "g", "y">>>>,
         <<t00, t15>>,
         <<t15, t20>>,
         lBlank }

notPband == <<firstVars, fermiVars, encutVars, kpVars, orbitsVars, latticeVars>>

\* Orbit_Band.py l.19-42, one turn of the loop.
B_Line ==
    /\ pc = "b_loop"
    /\ pband_i < Len(pband_file)
    /\ pband_i' = pband_i + 1
    /\ LET tokens == pband_file[pband_i + 1]
           line == JoinTokens(tokens)
       IN IF line = << >>
          THEN UNCHANGED <<bands, current_band, data_lines>>
          ELSE IF StartsWith(line, BandIndexMarker)
          THEN /\ IF current_band /= NoIndex /\ data_lines /= << >>
                  THEN /\ bands' = [b \in DOMAIN bands \cup {current_band} |->
                                       IF b = current_band THEN band_array(data_lines)
                                       ELSE bands[b]]
                       /\ data_lines' = << >>
                  ELSE UNCHANGED <<bands, data_lines>>
               /\ current_band' = IF band_index_of(line) /= NoIndex
                                  THEN band_index_of(line) ELSE current_band
          ELSE IF StartsWith(line, <<"#", "K", "-", "P", "a", "t", "h">>) \/ ~IsDigit(line[1])
          THEN UNCHANGED <<bands, current_band, data_lines>>
          ELSE /\ data_lines' = Append(data_lines, tokens)
               /\ UNCHANGED <<bands, current_band>>
    /\ UNCHANGED <<pc, out, pband_file, notPband>>

\* Orbit_Band.py l.44-49: the last band, and the return.
B_Return ==
    /\ pc = "b_loop"
    /\ pband_i = Len(pband_file)
    /\ bands' = IF current_band /= NoIndex /\ data_lines /= << >>
                THEN [b \in DOMAIN bands \cup {current_band} |->
                         IF b = current_band THEN band_array(data_lines) ELSE bands[b]]
                ELSE bands
    /\ pc' = "b_returned"
    /\ UNCHANGED <<out, pband_file, pband_i, current_band, data_lines, notPband>>

InitPband ==
    /\ pc = "b_loop" /\ out = {}
    /\ FirstIdle /\ FermiIdle /\ EncutIdle /\ KpIdle
    /\ OrbitsIdle /\ LatticeIdle
    /\ pband_file \in SeqsUpTo(PbandLineVocab, MaxBLines)
    /\ pband_i = 0 /\ bands = << >>
    /\ current_band = NoIndex /\ data_lines = << >>

NextPband == B_Line \/ B_Return

SpecPband == InitPband /\ [][NextPband]_vars

\* Line i of the file is a marker line, a data row.
IsMarkerLine(i) == StartsWith(JoinTokens(pband_file[i]), BandIndexMarker)
IsDataRow(i) ==
    /\ pband_file[i] /= << >> /\ ~IsMarkerLine(i)
    /\ IsDigit(JoinTokens(pband_file[i])[1])
\* The data rows between marker line m and the next marker line, among the
\* lines read so far.
SectionRows(m) ==
    LET later == {j \in (m + 1)..pband_i : IsMarkerLine(j)}
        stop == IF later = {} THEN pband_i + 1
                ELSE CHOOSE j \in later : \A k \in later : j <= k
    IN SelectSeq([j \in 1..(stop - m - 1) |->
                     IF IsDataRow(m + j) THEN pband_file[m + j] ELSE << >>],
                 LAMBDA row : row /= << >>)

\* C19 as stated: the rows stored under band b are the data rows of one
\* section opened by a marker line "# Band-Index b", in file order, and hold
\* no data row from outside that section (none from before the first marker).
C19_RowsFollowTheirMarker ==
    \A b \in DOMAIN bands :
        \E m \in 1..pband_i :
            /\ IsMarkerLine(m)
            /\ band_index_of(JoinTokens(pband_file[m])) = b
            /\ bands[b] = band_array(SectionRows(m))

\* C20 as stated: the rows stored for a band, which are stored when its
\* section ends, are changed by no later line, whatever marker lines follow.
C20_StoredRowsNeverChange ==
    [][\A b \in DOMAIN bands : b \in DOMAIN bands' /\ bands'[b] = bands[b]]_vars

\* ------------------------------------------- KPOINTS_TEST.py: more claims

\* C25: once a result was collected the scan always declares a point, at the
\* latest the largest key, whose difference to the reference is 0; the
\* report that no point was found is never printed.
C25_AlwaysDeclared ==
    /\ pc = "k_returned" =>
          /\ converged_kpoints /= NoIndex
          /\ converged_kpoints <= sorted_kpoints[Len(sorted_kpoints)]
          /\ energy_differences[Len(energy_differences)] = Finite(0)
          /\ "convergence point found" \in out
    /\ "no convergence point in the tested range" \notin out

\* Two results 0.003 eV apart: the largest key is declared.
C25_Witness ==
    /\ pc = "k_returned"
    /\ sorted_kpoints = <<3, 5>>
    /\ energy_differences = <<Finite(30), Finite(0)>>
    /\ converged_kpoints = 5

\* ------------------------------------------- label extraction: more claims

\* The label an extractor stores for a line.
LabelOf(v, line) ==
    IF v = "Dirac" THEN SelectSeq(line[1], NotBackslash)
    ELSE IF v = "BAND" /\ line[1] = tGamma THEN tBsGamma
    ELSE line[1]

\* The two lists stay as they are, or each gains one entry, both read from
\* the line the loop is at.
PairedStep ==
    \/ labels' = labels /\ sym_points' = sym_points
    \/ /\ pc = "kl_loop" /\ idx < Len(lines)
       /\ idx' = idx + 1
       /\ LET line == lines[idx + 1]
          IN /\ ValidLine(variant, line)
             /\ labels' = Append(labels, LabelOf(variant, line))
             /\ sym_points' =
                    Append(sym_points, float(CoordToken(variant, line)).val)

\* C26: in every extractor, after each processed line (valid, malformed,
\* blank or header) the label list and the coordinate list have the same
\* length, and a line that adds to one adds its own entry to the other.
C26_ListsGrowTogether ==
    [][/\ Len(labels) = Len(sym_points)
       /\ Len(labels') = Len(sym_points')
       /\ PairedStep]_vars

\* A file with a blank line, a malformed line and a valid line, read to the
\* end.
C26_Witness ==
    /\ pc = "kl_done" /\ kl_exists
    /\ \E i \in 1..Len(kl_file) : kl_file[i] = << >>
    /\ \E i \in 1..Len(kl_file) : BadCoordLine(variant, kl_file[i])
    /\ Len(labels) >= 1 /\ Len(labels) = Len(sym_points)

\* A header line first, then blank lines and lines of exactly two tokens, a
\* label that does not start with an asterisk and a numeric coordinate.
ConventionalFile(ls) ==
    /\ ls /= << >> /\ HasMarker(ls[1])
    /\ \A i \in 2..Len(ls) :
           \/ ls[i] = << >>
           \/ /\ Len(ls[i]) = 2
              /\ ls[i][1][1] /= "*"
              /\ float(ls[i][2]).ok

NonBlank(line) == line /= << >>

\* The non-blank lines after the first, in file order.
DataLines(ls) == SelectSeq(Tail(ls), NonBlank)

\* C23: on a conventional label file the BAND.py loop,
\* BAND_Orbits.read_klabels and Dirac.read_klabels return the same
\* coordinates in the same order, one per data line, and the same labels
\* except that BAND.py turns "Gamma" into "\Gamma" and Dirac.py alone
\* removes backslashes.
C23_VariantsAgree ==
    (pc = "kl_done" /\ kl_exists /\ ConventionalFile(kl_file)) =>
        LET data == DataLines(kl_file)
        IN /\ Len(sym_points) = Len(data) /\ Len(labels) = Len(data)
           /\ \A i \in 1..Len(data) :
                  /\ sym_points[i] = float(data[i][2]).val
                  /\ variant = "BAND_Orbits" => labels[i] = data[i][1]
                  /\ variant = "BAND" =>
                         labels[i] = IF data[i][1] = tGamma THEN tBsGamma
                                     ELSE data[i][1]
                  /\ variant = "Dirac" =>
                         labels[i] = SelectSeq(data[i][1], NotBackslash)

\* BAND.py on a file with a blank line, "Gamma" and "\Gamma": both labels
\* come out as "\Gamma".
C23_Witness ==
    /\ pc = "kl_done" /\ variant = "BAND"
    /\ kl_file = <<lHeader, lBlank, lGamma, lBsGamma>>
    /\ labels = <<tBsGamma, tBsGamma>>
    /\ sym_points = <<0, 0>>

\* ---------------- BAND_Orbits.py: analyze_dirac_cone_contributions and main

MaxOLines == 2
MaxOTable == 3

\* fermi_energy, the default of the parameter.
fermi_default == 0
k_range == 2 * Unit
\* e_range of the first attempt and of the retry.
e_range_first == 2 * Unit
e_range_retry == Unit \div 2

\* The lines a label file of this script is made of; "k 2.0" has a
\* lower-case label.
OrbitsLineVocab == {lHeader, lGamma, lK, <<<<"k">>, t20>>, lStar}

\* The rows of PBAND_C.dat, path coordinate and energy: at 1.5 with 0.25,
\* 2.0 and 2.5 eV, and at 4.0 with 0.25 eV.
PbandRows ==
    {[k |-> (3 * Unit) \div 2, e |-> e] :
        e \in {Unit \div 4, 2 * Unit, (5 * Unit) \div 2}}
    \cup {[k |-> 4 * Unit, e |-> Unit \div 4]}

\* read_klabels of BAND_Orbits.py as one call.
RECURSIVE Orbits_loop(_, _)
Orbits_loop(ls, acc) ==
    IF ls = << >> THEN acc
    ELSE Orbits_loop(Tail(ls), Orbits_line(Head(ls), acc))

Orbits_read_klabels(ls) ==
    Orbits_loop(SubSeq(ls, Orbits_start_index(ls) + 1, Len(ls)), NoLabels)

\* The search for K with the middle of the path as the fallback.
k_point_index_or_midpoint(lbls, ks, path) ==
    LET hits == {i \in 1..Len(lbls) : Upper(lbls[i]) = tK}
        first == CHOOSE i \in hits : \A j \in hits : i <= j
    IN IF hits = {}
       THEN [k_point_idx |-> Len(path) \div 2,
             k_point |-> path[(Len(path) \div 2) + 1]]
       ELSE [k_point_idx |-> argmin_abs(path, ks[first]), k_point |-> ks[first]]

\* BAND_Orbits.py l.58-66: the coordinate of the first label that is K in
\* any case and the row nearest to it, NoIndex where no label is.
k_point_index(lbls, ks, path) ==
    LET hits == {i \in 1..Len(lbls) : Upper(lbls[i]) = tK}
        first == CHOOSE i \in hits : \A j \in hits : i <= j
    IN IF hits = {}
       THEN [k_point_idx |-> NoIndex, k_point |-> 0]
       ELSE [k_point_idx |-> argmin_abs(path, ks[first]), k_point |-> ks[first]]

\* (xs > c - r) & (xs < c + r)
range_mask(xs, c, r) == [i \in 1..Len(xs) |-> xs[i] > c - r /\ xs[i] < c + r]

\* xs[mask]
RECURSIVE masked(_, _)
masked(xs, mask) ==
    IF xs = << >> THEN << >>
    ELSE (IF Head(mask) THEN <<Head(xs)>> ELSE << >>) \o masked(Tail(xs), Tail(mask))

\* np.sum(e_mask)
np_sum(mask) == Cardinality({i \in 1..Len(mask) : mask[i]})

notOrbits == <<klVars, resultVars, diracVars, dosVars, fermiVars, encutVars,
               kpVars, pbandVars, latticeVars>>

\* main l.196-201: the two existence checks.
O_Main ==
    /\ pc = "o_main"
    /\ IF ~pband_present
       THEN pc' = "o_returned" /\ out' = out \cup {"PBAND_C.dat not found"}
       ELSE IF ~klabels_present
       THEN pc' = "o_returned" /\ out' = out \cup {"KLABELS not found"}
       ELSE pc' = "o_read" /\ out' = out
    /\ UNCHANGED <<orbitsVars, raised, notOrbits>>

\* l.55-56: read_pband and read_klabels.  np.loadtxt gives a one-dimensional
\* array for a table of fewer than two rows, and data[:, 0] raises IndexError
\* on it.
O_Read ==
    /\ pc = "o_read"
    /\ \E table \in SeqsUpTo(PbandRows, MaxOTable) :
          IF Len(table) < 2
          THEN /\ raised' = raised \cup {"IndexError"}
               /\ pc' = "o_raised"
               /\ UNCHANGED <<k_path, energy_all, high_sym_k, high_sym_labels>>
          ELSE /\ k_path' = [i \in 1..Len(table) |-> table[i].k]
               /\ energy_all' = [i \in 1..Len(table) |-> table[i].e]
               /\ high_sym_k' = Orbits_read_klabels(klabels_lines).sym_points
               /\ high_sym_labels' = Orbits_read_klabels(klabels_lines).labels
               /\ pc' = "o_find"
               /\ raised' = raised
    /\ UNCHANGED <<out, pband_present, klabels_present, klabels_lines,
                   k_point_idx, k_point, energy_near, e_range, e_mask, notOrbits>>

\* l.58-69: the search for K, and the ValueError when no label is K.
O_FindK ==
    /\ pc = "o_find"
    /\ LET found == k_point_index(high_sym_labels, high_sym_k, k_path)
       IN IF found.k_point_idx = NoIndex
          THEN /\ raised' = raised \cup {"ValueError"}
               /\ pc' = "o_raised"
               /\ UNCHANGED <<k_point_idx, k_point>>
          ELSE /\ k_point_idx' = found.k_point_idx
               /\ k_point' = found.k_point
               /\ pc' = "o_window"
               /\ raised' = raised
    /\ UNCHANGED <<out, pband_present, klabels_present, klabels_lines, k_path,
                   energy_all, high_sym_k, high_sym_labels, energy_near, e_range,
                   e_mask, notOrbits>>

\* l.72-80: the rows near K and the first energy window.
O_Window ==
    /\ pc = "o_window"
    /\ energy_near' = masked(energy_all, range_mask(k_path, k_point, k_range))
    /\ e_range' = e_range_first
    /\ e_mask' = range_mask(energy_near', fermi_default, e_range')
    /\ pc' = IF np_sum(e_mask') = 0 THEN "o_retry" ELSE "o_mean"
    /\ UNCHANGED <<out, pband_present, klabels_present, klabels_lines, k_path,
                   energy_all, high_sym_k, high_sym_labels, k_point_idx, k_point,
                   raised, notOrbits>>

\* l.82-85: the warning and the second energy window.
O_Retry ==
    /\ pc = "o_retry"
    /\ out' = out \cup {"no point near the Fermi level, trying a wider range"}
    /\ e_range' = e_range_retry
    /\ e_mask' = range_mask(energy_near, fermi_default, e_range')
    /\ pc' = "o_mean"
    /\ UNCHANGED <<pband_present, klabels_present, klabels_lines, k_path,
                   energy_all, high_sym_k, high_sym_labels, k_point_idx, k_point,
                   energy_near, raised, notOrbits>>

\* l.88-94 and main l.208-222: the percentages (nan, with a warning and no
\* exception, when no row is selected), the summary, the two plots and the
\* main orbital.
O_Report ==
    /\ pc = "o_mean"
    /\ out' = out \cup {"contribution summary", "plots", "main orbital"}
    /\ pc' = "o_returned"
    /\ UNCHANGED <<orbitsVars, raised, notOrbits>>

\* main l.224-225: except Exception.
O_Except ==
    /\ pc = "o_raised"
    /\ out' = out \cup {"error during analysis"}
    /\ pc' = "o_returned"
    /\ UNCHANGED <<orbitsVars, raised, notOrbits>>

InitOrbits ==
    /\ pc = "o_main" /\ out = {} /\ raised = {}
    /\ KlIdle /\ ResultIdle /\ DiracIdle /\ DosIdle
    /\ FermiIdle /\ EncutIdle /\ KpIdle /\ PbandIdle /\ LatticeIdle
    /\ pband_present \in BOOLEAN /\ klabels_present \in BOOLEAN
    /\ klabels_lines \in (IF klabels_present
                          THEN SeqsUpTo(OrbitsLineVocab, MaxOLines)
                          ELSE {<< >>})
    /\ k_path = << >> /\ energy_all = << >>
    /\ high_sym_k = << >> /\ high_sym_labels = << >>
    /\ k_point_idx = NoIndex /\ k_point = 0
    /\ energy_near = << >> /\ e_range = 0 /\ e_mask = << >>

NextOrbits ==
    \/ O_Main \/ O_Read \/ O_FindK \/ O_Window \/ O_Retry \/ O_Report \/ O_Except

SpecOrbits == InitOrbits /\ [][NextOrbits]_vars

\* ------------------------------------------------- BAND_Orbits.py: claims

Retried == "no point near the Fermi level, trying a wider range" \in out

\* C21: when no sample near K lies strictly within 2 eV of the Fermi energy,
\* the retry widens the energy range: the second window contains the first,
\* so it can select samples the first attempt missed.
C21_RetryWidens ==
    (pc \in {"o_mean", "o_returned"} /\ Retried) =>
        /\ e_range >= e_range_first
        /\ \A i \in 1..Len(energy_near) :
               range_mask(energy_near, fermi_default, e_range_first)[i] => e_mask[i]

\* C22: with no label equal to K in any case (an empty label list included)
\* the analysis raises instead of falling back to a middle row; main catches
\* the error, prints a diagnostic, shows no plot and no contribution summary
\* and returns.  With either input file missing main returns before the
\* analysis starts.
NoKLabel == \A i \in 1..Len(high_sym_labels) : Upper(high_sym_labels[i]) /= tK

C22_NoKRaisesAndMainReturns ==
    /\ (pc \in {"o_window", "o_retry", "o_mean"}) => ~NoKLabel
    /\ (pc = "o_raised" /\ k_path /= << >>) =>
           /\ NoKLabel /\ "ValueError" \in raised
           /\ k_point_idx = NoIndex
           /\ ENABLED O_Except
    /\ (pc = "o_returned" /\ raised /= {}) =>
           /\ "error during analysis" \in out
           /\ out \cap {"contribution summary", "plots", "main orbital"} = {}
    /\ (pc = "o_returned" /\ k_path /= << >> /\ raised = {}) => ~NoKLabel
    /\ (~pband_present \/ ~klabels_present) =>
           /\ pc \in {"o_main", "o_returned"}
           /\ k_path = << >> /\ high_sym_labels = << >> /\ raised = {}
           /\ out \subseteq {"PBAND_C.dat not found", "KLABELS not found"}

\* A label file with a header and "Gamma 0.0" only: the error was caught and
\* main returned.
C22_Witness ==
    /\ pc = "o_returned"
    /\ klabels_lines = <<lHeader, lGamma>>
    /\ Len(k_path) >= 2 /\ high_sym_labels = <<tGamma>>
    /\ raised = {"ValueError"}
    /\ out = {"error during analysis"}

\* ------------------------- LATTICE.py: analyze_lattice_constant_optimization

MaxScales == 5

\* LATTICE.py l.46 in hundredths; a run of the model covers the first
\* MaxScales values of the list.
ScaleList == [i \in 1..MaxScales |-> 96 + i]

\* What the directory Scale_<s> holds: both files, one of them or neither, an
\* OUTCAR whose TOTEN line reads NaN, an OUTCAR without a TOTEN line, or a
\* CONTCAR whose second line is not a number.
DirKinds == {"both", "no_outcar", "no_contcar", "neither",
             "nan_energy", "no_toten", "bad_contcar"}

outcar_exists(kind) == kind \notin {"no_outcar", "neither"}
contcar_exists(kind) == kind \notin {"no_contcar", "neither"}

\* extract_energy_from_outcar on the OUTCAR of position i: float(parts[4]) of
\* the first TOTEN line, None without one.  The files of different positions
\* hold different energies.
lattice_extract_energy(kind, i) ==
    IF kind = "no_toten" THEN NoEnergy
    ELSE IF kind = "nan_energy" THEN NaN
    ELSE Finite(0 - (1000 + i))

\* extract_lattice_constant_from_contcar on the CONTCAR of position i: ok is
\* FALSE where float raises ValueError.
extract_lattice_constant_from_contcar(kind, i) ==
    IF kind = "bad_contcar" THEN [ok |-> FALSE, val |-> NaN]
    ELSE [ok |-> TRUE, val |-> Finite(240 + i)]

\* np.isnan
isnan(x) == x.cls = "nan"

notLattice == <<klVars, resultVars, diracVars, dosVars, fermiVars, encutVars,
                kpVars, pbandVars, orbitsVars>>

\* l.51-66: one pass of the loop.  Nothing catches the ValueError of a
\* malformed CONTCAR, nor the TypeError of formatting None with .6f, which
\* comes after the two appends.
L_Collect ==
    /\ pc = "l_collect"
    /\ sc_i < Len(scale_factors)
    /\ LET kind == scale_dirs[sc_i + 1]
           e == lattice_extract_energy(kind, sc_i + 1)
           c == extract_lattice_constant_from_contcar(kind, sc_i + 1)
       IN IF outcar_exists(kind) /\ contcar_exists(kind)
          THEN IF ~c.ok
               THEN /\ raised' = raised \cup {"ValueError"}
                    /\ pc' = "l_raised"
                    /\ UNCHANGED <<sc_i, lattice_energies, lattice_constants, out>>
               ELSE /\ lattice_energies' = Append(lattice_energies, e)
                    /\ lattice_constants' = Append(lattice_constants, c.val)
                    /\ IF e = NoEnergy
                       THEN /\ raised' = raised \cup {"TypeError"}
                            /\ pc' = "l_raised"
                            /\ UNCHANGED <<sc_i, out>>
                       ELSE /\ sc_i' = sc_i + 1
                            /\ out' = out \cup {"Scale, lattice constant, energy"}
                            /\ UNCHANGED <<pc, raised>>
          ELSE /\ lattice_energies' = Append(lattice_energies, NaN)
               /\ lattice_constants' = Append(lattice_constants, NaN)
               /\ out' = out \cup {"data not found"}
               /\ sc_i' = sc_i + 1
               /\ UNCHANGED <<pc, raised>>
    /\ UNCHANGED <<scale_dirs, scale_factors, valid_indices, notLattice>>

\* l.69-72: the entries whose energy is not NaN are kept, in all three
\* arrays.
L_Filter ==
    /\ pc = "l_collect"
    /\ sc_i = Len(scale_factors)
    /\ valid_indices' = [i \in 1..Len(lattice_energies) |-> ~isnan(lattice_energies[i])]
    /\ scale_factors' = masked(scale_factors, valid_indices')
    /\ lattice_energies' = masked(lattice_energies, valid_indices')
    /\ lattice_constants' = masked(lattice_constants, valid_indices')
    /\ pc' = "l_fit"
    /\ UNCHANGED <<out, raised, scale_dirs, sc_i, notLattice>>

\* l.83-101: the quadratic fit and the report of its minimum.
L_Fit ==
    /\ pc = "l_fit"
    /\ out' = IF Len(lattice_energies) > 3
              THEN out \cup {"Quadratic fit", "Optimal lattice constant"}
              ELSE out
    /\ pc' = "l_returned"
    /\ UNCHANGED <<raised, latticeVars, notLattice>>

InitLattice ==
    /\ pc = "l_collect" /\ out = {} /\ raised = {}
    /\ KlIdle /\ ResultIdle /\ DiracIdle /\ DosIdle
    /\ FermiIdle /\ EncutIdle /\ KpIdle /\ PbandIdle /\ OrbitsIdle
    /\ scale_dirs \in [1..MaxScales -> DirKinds]
    /\ sc_i = 0
    /\ scale_factors = ScaleList
    /\ lattice_energies = << >> /\ lattice_constants = << >>
    /\ valid_indices = << >>

NextLattice == L_Collect \/ L_Filter \/ L_Fit

SpecLattice == InitLattice /\ [][NextLattice]_vars

\* ------------------------------------------------------ LATTICE.py: claims

BothPresent(i) == outcar_exists(scale_dirs[i]) /\ contcar_exists(scale_dirs[i])

\* The positions of the list whose two files are both present, in order.
RECURSIVE PresentFrom(_)
PresentFrom(i) ==
    IF i > MaxScales THEN << >>
    ELSE (IF BothPresent(i) THEN <<i>> ELSE << >>) \o PresentFrom(i + 1)

Filtered == pc \in {"l_fit", "l_returned"}

\* C24: a scale factor missing either of its two files gets NaN in both
\* lists and does not abort the run; after the filter the three arrays have
\* the same length and hold exactly the scale factors whose files were both
\* present, in the original order, entry i of each for the same scale
\* factor; the fit and the report of the optimum happen only with more than
\* 3 entries left.
C24_FilterKeepsPresentScales ==
    /\ pc = "l_collect" =>
           \A i \in 1..Len(lattice_energies) :
               ~BothPresent(i) =>
                   isnan(lattice_energies[i]) /\ isnan(lattice_constants[i])
    /\ pc = "l_raised" => BothPresent(sc_i + 1)
    /\ Filtered =>
           LET present == PresentFrom(1)
           IN /\ Len(scale_factors) = Len(present)
              /\ Len(lattice_energies) = Len(present)
              /\ Len(lattice_constants) = Len(present)
              /\ \A i \in 1..Len(present) :
                     /\ scale_factors[i] = ScaleList[present[i]]
                     /\ lattice_energies[i] =
                            lattice_extract_energy(scale_dirs[present[i]], present[i])
                     /\ lattice_constants[i] =
                            extract_lattice_constant_from_contcar(
                                scale_dirs[present[i]], present[i]).val
    /\ "Optimal lattice constant" \in out => Len(lattice_energies) > 3
    /\ (pc = "l_returned" /\ Len(lattice_energies) > 3) =>
           "Optimal lattice constant" \in out

====
